---- MODULE Spec2Model ----
(***************************************************************************)
(* A model of SWE-agent's model layer (sweagent/agent/models.py: cost      *)
(* statistics, cost limits, the retry wrapper of the network backends)     *)
(* and of the orchestrator's skip decision (run.py: Main.should_skip and   *)
(* the head of Main.run).                                                  *)
(*                                                                         *)
(* Money is counted in whole cost units (one unit = the input-token price  *)
(* of the modelled table entry), so sums are exact; the source keeps the   *)
(* same quantities in binary floating point.                               *)
(***************************************************************************)
EXTENDS Integers, Sequences, FiniteSets, TLC

(***************************************************************************)
(* Bounds of the model.                                                    *)
(***************************************************************************)
\* update_stats applications recorded since the last reset
MaxCalls == 2
\* instances loaded into env.data
NumInstances == 2
\* a no-argument reset is explored only while total_cost is at most this
MaxCarry == 4

(***************************************************************************)
(* Program constants.                                                      *)
(***************************************************************************)
\* stop=stop_after_attempt(3)
MaxAttempts == 3

(***************************************************************************)
(* Inputs the operations are exercised with.                               *)
(***************************************************************************)
InputTokens == {0, 2}
OutputTokens == {0, 1}
\* 0 disables a limit
CostLimits == {0, 3}

Backends == {"openai", "anthropic", "bedrock", "ollama", "together"}

\* One table entry per backend, in cost units: gpt-4-0613 (3e-05, 6e-05),
\* claude-3-opus-20240229 (1.5e-05, 7.5e-05), anthropic.claude-v2 (8e-06,
\* 2.4e-05), the Ollama default entry (0, 0), Llama-2-13b-chat-hf (2.25e-07,
\* 2.25e-07).
MODELS(b) ==
  CASE b = "openai"    -> [cost_per_input_token |-> 1, cost_per_output_token |-> 2]
    [] b = "anthropic" -> [cost_per_input_token |-> 1, cost_per_output_token |-> 5]
    [] b = "bedrock"   -> [cost_per_input_token |-> 1, cost_per_output_token |-> 3]
    [] b = "ollama"    -> [cost_per_input_token |-> 0, cost_per_output_token |-> 0]
    [] b = "together"  -> [cost_per_input_token |-> 1, cost_per_output_token |-> 1]

VARIABLES
  \* ---- the model object (BaseModel and its subclasses)
  backend,         \* which subclass get_model constructed
  args,            \* ModelArguments: total_cost_limit, per_instance_cost_limit
  model_metadata,  \* the table entry: cost_per_input_token, cost_per_output_token
  stats,           \* self.stats, an APIStats
  \* ---- one invocation of a retry-wrapped query
  qstate,          \* "idle" | "running" (between attempts of one invocation)
  attempt,         \* attempts made by the current / last invocation
  provider_calls,  \* provider calls made by the current / last invocation
  resp,            \* what the provider answered to the last provider call
  raised,          \* what the last attempt raised ("none": it returned)
  \* ---- what the caller observes
  op,              \* the operation that acted last
  outcome,         \* "none" | "returned" | the exception that reached the caller
  \* ---- history kept for the properties
  calls,           \* <<input_tokens, output_tokens>> of each update_stats since
                   \* construction or the last reset
  base,            \* the statistics right after construction or the last reset
  other,           \* the snapshot handed to the last reset_stats(other)
  \* ---- the orchestrator (run.py: Main)
  script_args,     \* ScriptArguments: instance_filter, skip_existing,
                   \* raise_exceptions
  traj_dir,        \* instance id -> the file <instance_id>.traj of self.traj_dir
  preds,           \* the lines of all_preds.jsonl
  mpc,             \* where Main.main stands
  index,           \* the loop index of Main.main
  hook_log,        \* <<hook, callback>> fired since the loop took up this index
  env_log,         \* environment calls made since the loop took up this index
  skip_ret,        \* what the last should_skip returned or raised
  fs_ops,          \* file operations of the last should_skip
  info,            \* the RunInfo the last agent.run returned
  batch,           \* counts over the whole batch: callbacks, environment calls
  events,          \* what Main.run(index) and its handler did, in order
  \* ---- the hooks (run.py: SaveApplyPatchHook, OpenPRHook)
  actions,         \* ActionsArguments: open_pr, apply_patch_locally,
                   \* skip_if_commits_reference_issue
  patches,         \* instance id -> the file patches/<instance_id>.patch
  hpc,             \* which completion callback is due (hooks run on their own)
  hook_in,         \* what the last completion callbacks were given
  hook_out,        \* what the last completion callbacks did
  \* ---- construction of a model (models.py: get_model, the __init__s)
  model_name,      \* args.model_name
  bpc,             \* "args" before get_model, "built" after it
  built,           \* the class chosen, api_model, model_metadata, what was raised
  \* ---- the replay model (models.py: ReplayModel)
  replay_model,    \* self.replays, self.replay_idx, self.action_idx
  replay_log,      \* what the queries returned, and what the last one raised
  \* ---- the test stub (models.py: InstantEmptySubmitTestModel)
  stub_model,      \* self._action_idx
  stub_log,        \* what the queries returned
  \* ---- the human model (models.py: HumanModel)
  human_model,     \* self.multi_line_command_endings
  stdin,           \* the lines the operator will type, the number read
  human_out,       \* where query stands, its buffer, what it returned
  \* ---- one call of anthropic_history_to_messages (models.py)
  history,         \* the caller's list: the address of each entry
  heap,            \* address -> the dictionary stored there
  messages,        \* what the call returned
  request,         \* what anthropic_query made of the history for the API
  \* ---- one call of parse_command_file (commands.py)
  cmd_file,        \* the path and the contents of the file
  commands,        \* what the call returned or raised
  \* ---- the prompt context of Main.run (run.py)
  record,          \* self.env.record: the fields it carries
  setup_args,      \* what Main.run built, or what the lookup raised
  \* ---- two orchestrators on one trajectory directory (run.py)
  orch,            \* process -> where it stands, its index, what it decided
  shared_dir,      \* args.yaml, and instance id -> <instance_id>.traj
  shared_preds,    \* the lines of all_preds.jsonl
  \* ---- the repository references (sweagent/environment/utils.py)
  gh_url,          \* the string handed to the function
  gh_out           \* what the function returned or raised

modelVars == <<backend, args, model_metadata, stats, qstate, attempt,
               provider_calls, resp, raised, op, outcome, calls, base, other>>

mainVars == <<script_args, traj_dir, preds, mpc, index, hook_log, env_log,
              skip_ret, fs_ops, info, batch, events>>

hookVars == <<actions, patches, hpc, hook_in, hook_out>>

nameVars == <<model_name, bpc, built>>

replayVars == <<replay_model, replay_log>>

stubVars == <<stub_model, stub_log>>

humanVars == <<human_model, stdin, human_out>>

msgVars == <<history, heap, messages, request>>

cmdVars == <<cmd_file, commands>>

setupVars == <<record, setup_args>>

raceVars == <<orch, shared_dir, shared_preds>>

urlVars == <<gh_url, gh_out>>

toolVars == <<replayVars, stubVars, humanVars, msgVars, cmdVars, setupVars,
              raceVars, urlVars>>

vars == <<modelVars, mainVars, hookVars, nameVars, toolVars>>

(***************************************************************************)
(* APIStats                                                                *)
(***************************************************************************)
APIStats(tc, ic, ts, tr, ac) ==
  [total_cost |-> tc, instance_cost |-> ic, tokens_sent |-> ts,
   tokens_received |-> tr, api_calls |-> ac]

\* APIStats() : every field defaults to 0
APIStats0 == APIStats(0, 0, 0, 0, 0)

\* Snapshots a caller may install with reset_stats(other)
Snapshots == {APIStats(2, 1, 1, 1, 1), APIStats(4, 3, 2, 1, 2)}

(***************************************************************************)
(* BaseModel.reset_stats                                                   *)
(***************************************************************************)
\* faulty variant: the reset drops the cumulative total as well
reset_stats_mut_drop_total(s) == APIStats0

\* reset_stats(): self.stats = APIStats(total_cost=self.stats.total_cost)
reset_stats_none(s) == APIStats(s.total_cost, 0, 0, 0, 0)

\* reset_stats(other): self.stats = other
reset_stats_other(s, o) == o

(***************************************************************************)
(* BaseModel.update_stats                                                  *)
(***************************************************************************)
\* faulty variant: output tokens charged at the input price
cost_mut_same_price(md, input_tokens, output_tokens) ==
  md.cost_per_input_token * input_tokens
  + md.cost_per_input_token * output_tokens

\* cost = cost_per_input_token * input_tokens + cost_per_output_token * output_tokens
cost_of(md, input_tokens, output_tokens) ==
  md.cost_per_input_token * input_tokens
  + md.cost_per_output_token * output_tokens

\* faulty variant: instance_cost assigned instead of accumulated
charge_mut_assign_instance(s, md, input_tokens, output_tokens) ==
  LET cost == cost_of(md, input_tokens, output_tokens) IN
  APIStats(s.total_cost + cost, cost, s.tokens_sent + input_tokens,
           s.tokens_received + output_tokens, s.api_calls + 1)

\* the five += of update_stats
charge(s, md, input_tokens, output_tokens) ==
  LET cost == cost_of(md, input_tokens, output_tokens) IN
  APIStats(s.total_cost + cost, s.instance_cost + cost,
           s.tokens_sent + input_tokens,
           s.tokens_received + output_tokens, s.api_calls + 1)

\* faulty variant: a limit counts only once it is exceeded, not when reached
limit_check_mut_strict(a, s) ==
  IF 0 < a.total_cost_limit /\ a.total_cost_limit < s.total_cost
    THEN "CostLimitExceededError"
    ELSE IF 0 < a.per_instance_cost_limit
            /\ a.per_instance_cost_limit < s.instance_cost
      THEN "CostLimitExceededError"
      ELSE "none"

\* the two limit checks at the end of update_stats, in the order of the code
limit_check(a, s) ==
  IF 0 < a.total_cost_limit /\ a.total_cost_limit <= s.total_cost
    THEN "CostLimitExceededError"
    ELSE IF 0 < a.per_instance_cost_limit
            /\ a.per_instance_cost_limit <= s.instance_cost
      THEN "CostLimitExceededError"
      ELSE "none"

\* faulty variant: the limits are checked first and a raising call leaves
\* the statistics as they were
update_stats_mut_check_first(s, md, a, input_tokens, output_tokens) ==
  LET s2 == charge(s, md, input_tokens, output_tokens) IN
  [stats |-> IF limit_check(a, s2) = "none" THEN s2 ELSE s,
   exc |-> limit_check(a, s2)]

\* update_stats as a function: the statistics it leaves and what it raises
update_stats(s, md, a, input_tokens, output_tokens) ==
  LET s2 == charge(s, md, input_tokens, output_tokens) IN
  [stats |-> s2, exc |-> limit_check(a, s2)]

(***************************************************************************)
(* The retry wrapper of the network backends (tenacity):                   *)
(*   @retry(wait=wait_random_exponential(min=1, max=15), reraise=True,     *)
(*          stop=stop_after_attempt(3),                                    *)
(*          retry=retry_if_not_exception_type((CostLimitExceededError,     *)
(*                                             RuntimeError)))             *)
(***************************************************************************)
\* What a provider call can answer: a response with its usage numbers, a
\* response of Ollama without prompt_eval_count or without eval_count, or a
\* failure.
ProviderFailures == {"BadRequestError", "APIError", "RuntimeError"}

Responses(b) ==
  [kind : {"ok"}, input_tokens : InputTokens, output_tokens : OutputTokens]
  \cup [kind : ProviderFailures, input_tokens : {0}, output_tokens : {0}]
  \cup (IF b = "ollama"
          THEN [kind : {"ok_no_prompt_eval_count"}, input_tokens : {0},
                output_tokens : OutputTokens]
               \cup [kind : {"no_eval_count"}, input_tokens : InputTokens,
                     output_tokens : {0}]
          ELSE {})

\* faulty variant: every failure is retried
retry_predicate_mut_retry_all(exc) == exc # "none"

\* retry_if_not_exception_type((CostLimitExceededError, RuntimeError)):
\* false for a success, true for a failure of any other type
retry_predicate(exc) ==
  exc # "none" /\ exc \notin {"CostLimitExceededError", "RuntimeError"}

\* faulty variant: one attempt more
stop_mut_four(attempt_number) == attempt_number >= MaxAttempts + 1

\* stop_after_attempt(3)
stop_after_attempt(attempt_number) == attempt_number >= MaxAttempts

\* What the wrapper does with the result of attempt number attempt_number:
\* hand the result (or, with reraise=True, the attempt's exception) to the
\* caller, or sleep and call the function again.
retry_decision(exc, attempt_number) ==
  IF ~retry_predicate(exc) THEN "finish"
  ELSE IF stop_after_attempt(attempt_number) THEN "finish"
  ELSE "retry"

\* The part shared by every backend's query after a successful provider
\* call: read the usage numbers, update_stats, return the text.
account(s, md, a, input_tokens, output_tokens) ==
  LET u == update_stats(s, md, a, input_tokens, output_tokens) IN
  [stats |-> u.stats, exc |-> u.exc,
   updates |-> <<(<<input_tokens, output_tokens>>)>>]

\* except BadRequestError: raise CostLimitExceededError(f"Context window ...")
openai_bad_request(s) ==
  [stats |-> s, exc |-> "CostLimitExceededError", updates |-> <<>>]

\* faulty variant: an attempt whose provider call failed is charged as a
\* call without tokens
openai_query_mut_charge_failures(s, md, a, r) ==
  IF r.kind = "BadRequestError" THEN openai_bad_request(s)
  ELSE IF r.kind # "ok"
    THEN [stats |-> charge(s, md, 0, 0), exc |-> r.kind, updates |-> <<>>]
  ELSE account(s, md, a, r.input_tokens, r.output_tokens)

\* OpenAIModel.query (the wrapped function, one attempt)
openai_query(s, md, a, r) ==
  IF r.kind = "BadRequestError" THEN openai_bad_request(s)
  ELSE IF r.kind # "ok" THEN [stats |-> s, exc |-> r.kind, updates |-> <<>>]
  ELSE account(s, md, a, r.input_tokens, r.output_tokens)

\* anthropic_query (one attempt): a failing provider call raises as it is
anthropic_query(s, md, a, r) ==
  IF r.kind # "ok" THEN [stats |-> s, exc |-> r.kind, updates |-> <<>>]
  ELSE account(s, md, a, r.input_tokens, r.output_tokens)

\* BedrockModel.query: the constructor admits only the anthropic provider,
\* so the NotImplementedError branch is never taken
bedrock_query(s, md, a, r) == anthropic_query(s, md, a, r)

\* OllamaModel.query: input_tokens is 0 when prompt_eval_count is missing;
\* response["eval_count"] raises KeyError when that key is missing
ollama_query(s, md, a, r) ==
  IF r.kind \in ProviderFailures
    THEN [stats |-> s, exc |-> r.kind, updates |-> <<>>]
  ELSE IF r.kind = "no_eval_count"
    THEN [stats |-> s, exc |-> "KeyError", updates |-> <<>>]
  ELSE IF r.kind = "ok_no_prompt_eval_count"
    THEN account(s, md, a, 0, r.output_tokens)
  ELSE account(s, md, a, r.input_tokens, r.output_tokens)

\* TogetherModel.query
together_query(s, md, a, r) ==
  IF r.kind # "ok" THEN [stats |-> s, exc |-> r.kind, updates |-> <<>>]
  ELSE account(s, md, a, r.input_tokens, r.output_tokens)

(***************************************************************************)
(* Actions of the model layer                                              *)
(***************************************************************************)
\* BaseModel.__init__: self.stats = APIStats(); the limits come from the
\* arguments, the prices from the table.
InitModel ==
  /\ backend \in Backends
  /\ args \in [total_cost_limit : CostLimits,
               per_instance_cost_limit : CostLimits]
  /\ model_metadata = MODELS(backend)
  /\ stats = APIStats0
  /\ qstate = "idle"
  /\ attempt = 0
  /\ provider_calls = 0
  /\ resp = "none"
  /\ raised = "none"
  /\ op = "init"
  /\ outcome = "none"
  /\ calls = <<>>
  /\ base = APIStats0
  /\ other = APIStats0

\* a direct call model.update_stats(input_tokens, output_tokens)
UpdateStats ==
  /\ qstate = "idle"
  /\ Len(calls) < MaxCalls
  /\ \E i \in InputTokens, o \in OutputTokens :
       LET u == update_stats(stats, model_metadata, args, i, o) IN
       /\ stats' = u.stats
       /\ outcome' = IF u.exc = "none" THEN "returned" ELSE u.exc
       /\ calls' = Append(calls, <<i, o>>)
  /\ op' = "update_stats"
  /\ UNCHANGED <<backend, args, model_metadata, qstate, attempt,
                 provider_calls, resp, raised, base, other>>

\* model.reset_stats()
ResetStats ==
  /\ qstate = "idle"
  /\ stats.total_cost <= MaxCarry
  /\ stats' = reset_stats_none(stats)
  /\ base' = stats'
  /\ calls' = <<>>
  /\ op' = "reset_stats"
  /\ outcome' = "returned"
  /\ UNCHANGED <<backend, args, model_metadata, qstate, attempt,
                 provider_calls, resp, raised, other>>

\* model.reset_stats(other)
ResetStatsOther ==
  /\ qstate = "idle"
  /\ \E o \in Snapshots :
       /\ stats' = reset_stats_other(stats, o)
       /\ other' = o
  /\ base' = stats'
  /\ calls' = <<>>
  /\ op' = "reset_stats_other"
  /\ outcome' = "returned"
  /\ UNCHANGED <<backend, args, model_metadata, qstate, attempt,
                 provider_calls, resp, raised>>

\* the caller invokes model.query(history): the wrapper starts its loop
QueryStart ==
  /\ qstate = "idle"
  /\ Len(calls) < MaxCalls
  /\ qstate' = "running"
  /\ attempt' = 0
  /\ provider_calls' = 0
  /\ resp' = "none"
  /\ raised' = "none"
  /\ op' = "query"
  /\ outcome' = "none"
  /\ UNCHANGED <<backend, args, model_metadata, stats, calls, base, other>>

\* One attempt: the wrapped function runs against the provider's answer r
\* and leaves res; the wrapper then finishes the invocation or goes on.
Attempt(r, res) ==
  LET n == attempt + 1
      d == retry_decision(res.exc, n) IN
  /\ attempt' = n
  /\ provider_calls' = provider_calls + 1
  /\ resp' = r.kind
  /\ raised' = res.exc
  /\ stats' = res.stats
  /\ calls' = calls \o res.updates
  /\ qstate' = IF d = "retry" THEN "running" ELSE "idle"
  /\ outcome' = IF d = "retry" THEN "none"
                ELSE IF res.exc = "none" THEN "returned" ELSE res.exc
  /\ op' = "attempt"
  /\ UNCHANGED <<backend, args, model_metadata, base, other>>

OpenAIAttempt ==
  /\ qstate = "running" /\ backend = "openai"
  /\ \E r \in Responses(backend) :
       Attempt(r, openai_query(stats, model_metadata, args, r))

AnthropicAttempt ==
  /\ qstate = "running" /\ backend = "anthropic"
  /\ \E r \in Responses(backend) :
       Attempt(r, anthropic_query(stats, model_metadata, args, r))

BedrockAttempt ==
  /\ qstate = "running" /\ backend = "bedrock"
  /\ \E r \in Responses(backend) :
       Attempt(r, bedrock_query(stats, model_metadata, args, r))

OllamaAttempt ==
  /\ qstate = "running" /\ backend = "ollama"
  /\ \E r \in Responses(backend) :
       Attempt(r, ollama_query(stats, model_metadata, args, r))

TogetherAttempt ==
  /\ qstate = "running" /\ backend = "together"
  /\ \E r \in Responses(backend) :
       Attempt(r, together_query(stats, model_metadata, args, r))

(***************************************************************************)
(* Regular expressions, as re.match evaluates them.  A pattern is a tree:  *)
(* <<"lit", c>>, <<"dot">>, <<"cat", r1, r2>>, <<"star", r>>; a string is  *)
(* a sequence of characters.                                               *)
(***************************************************************************)
Lit(c) == <<"lit", c>>
Dot == <<"dot">>
Cat(r1, r2) == <<"cat", r1, r2>>
Star(r) == <<"star", r>>

RECURSIVE Ends(_, _, _)
RECURSIVE StarEnds(_, _, _)
\* the positions j at which a match of r that starts at position i can end
Ends(r, s, i) ==
  CASE r[1] = "lit"  -> IF i < Len(s) /\ s[i + 1] = r[2] THEN {i + 1} ELSE {}
    [] r[1] = "dot"  -> IF i < Len(s) THEN {i + 1} ELSE {}
    [] r[1] = "cat"  -> UNION {Ends(r[3], s, j) : j \in Ends(r[2], s, i)}
    [] r[1] = "star" -> StarEnds(r[2], s, {i})

StarEnds(r, s, from) ==
  LET more == from \cup UNION {Ends(r, s, j) : j \in from} IN
  IF more = from THEN from ELSE StarEnds(r, s, more)

\* re.match(pattern, s) is not None: some match starts at position 0
re_match(pattern, s) == Ends(pattern, s, 0) # {}

(***************************************************************************)
(* The orchestrator: Main.main, Main.run, Main.should_skip                 *)
(***************************************************************************)
\* instance ids the dataset may hold
AllInstanceIds == << <<"a">>, <<"a", "b">>, <<"b">>, <<"a", "b", "c">> >>

Min(x, y) == IF x < y THEN x ELSE y

\* self.env.data: the instance_id of each loaded instance
data == SubSeq(AllInstanceIds, 1, Min(NumInstances, Len(AllInstanceIds)))

InstanceIds == {data[i] : i \in 1..Len(data)}

\* instance_filter: ".*" (the default), "a", "ab", "b"
Filters == {Star(Dot), Lit("a"), Cat(Lit("a"), Lit("b")), Lit("b")}

\* Main.__init__: default_hooks, in registration order
hooks == <<"SaveApplyPatchHook", "OpenPRHook">>

\* for hook in self.hooks: hook.<callback>(...)
FireAll(callback) == [h \in 1..Len(hooks) |-> <<hooks[h], callback>>]

\* What <instance_id>.traj can be: missing; not a JSON document (a write
\* was cut short); a JSON document without "info"; a trajectory whose info
\* has no exit_status key, a null exit_status, or an exit_status string.
NoFile == [exists |-> FALSE, doc |-> "none", exit_status |-> "none"]
Partial == [exists |-> TRUE, doc |-> "invalid_json", exit_status |-> "none"]
NoInfo == [exists |-> TRUE, doc |-> "no_info", exit_status |-> "none"]
Traj(es) == [exists |-> TRUE, doc |-> "info", exit_status |-> es]

ExitStatuses == {"early_exit", "submitted", "exit_cost"}

TrajFiles ==
  {NoFile, Partial, NoInfo, Traj("no_key"), Traj("null")}
  \cup {Traj(es) : es \in ExitStatuses}

\* data["info"].get("exit_status", None)
get_exit_status(file) ==
  IF file.exit_status \in {"no_key", "null"} THEN "None" ELSE file.exit_status

\* faulty variant: a missing exit status counts as complete
incomplete_mut_only_early_exit(exit_status) == exit_status = "early_exit"

\* exit_status == "early_exit" or exit_status is None
incomplete(exit_status) == exit_status = "early_exit" \/ exit_status = "None"

SkipResult(r, e, d, o) == [ret |-> r, exc |-> e, traj_dir |-> d, ops |-> o]

\* faulty variant: skip_existing is not consulted
existing_mut_ignore_flag(sa, dir, instance_id) ==
  LET file == dir[instance_id] IN
  IF ~file.exists THEN SkipResult(FALSE, "none", dir, <<"exists">>)
  ELSE IF file.doc = "invalid_json"
    THEN SkipResult(FALSE, "JSONDecodeError", dir, <<"exists", "read">>)
  ELSE IF file.doc = "no_info"
    THEN SkipResult(FALSE, "KeyError", dir, <<"exists", "read">>)
  ELSE IF incomplete(get_exit_status(file))
    THEN SkipResult(FALSE, "none", [dir EXCEPT ![instance_id] = NoFile],
                    <<"exists", "read", "remove">>)
  ELSE SkipResult(TRUE, "none", dir, <<"exists", "read">>)

\* should_skip from "if not self.args.skip_existing" on
existing(sa, dir, instance_id) ==
  LET file == dir[instance_id] IN
  IF ~sa.skip_existing THEN SkipResult(FALSE, "none", dir, <<>>)
  ELSE IF ~file.exists THEN SkipResult(FALSE, "none", dir, <<"exists">>)
  ELSE IF file.doc = "invalid_json"
    THEN SkipResult(FALSE, "JSONDecodeError", dir, <<"exists", "read">>)
  ELSE IF file.doc = "no_info"
    THEN SkipResult(FALSE, "KeyError", dir, <<"exists", "read">>)
  ELSE IF incomplete(get_exit_status(file))
    THEN SkipResult(FALSE, "none", [dir EXCEPT ![instance_id] = NoFile],
                    <<"exists", "read", "remove">>)
  ELSE SkipResult(TRUE, "none", dir, <<"exists", "read">>)

\* re.match(self.args.instance_filter, instance_id) is None
filter_rejects(pattern, instance_id) == ~re_match(pattern, instance_id)

\* Main.should_skip: what it returns or raises, the directory it leaves and
\* the file operations it performed
should_skip(sa, dir, instance_id) ==
  IF filter_rejects(sa.instance_filter, instance_id)
    THEN SkipResult(TRUE, "none", dir, <<>>)
    ELSE existing(sa, dir, instance_id)

(***************************************************************************)
(* The hooks: SaveApplyPatchHook and OpenPRHook.  Files of the trajectory  *)
(* directory are written without failure; calls that go over the network   *)
(* (the GitHub lookups) can fail.                                          *)
(***************************************************************************)
\* info["submission"]: the key may be missing, the patch may be empty
Submissions == {"no_key", "", "patch"}

\* info["exit_status"]
InfoExitStatuses == {"submitted", "submitted (exit_cost)", "early_exit"}

Infos == [exit_status : InfoExitStatuses, submission : Submissions]

\* info.get("submission")
get_submission(i) == IF i.submission = "no_key" THEN "None" ELSE i.submission

\* the truth value Python gives a str or None
truthy(v) == v \notin {"None", ""}

\* SaveApplyPatchHook._save_patch: what it writes to
\* patches/<instance_id>.patch ("none": nothing, and it returns None)
save_patch(i) ==
  IF ~truthy(get_submission(i)) THEN "none" ELSE i.submission

\* what "git apply" can come to: exit code 0, or CalledProcessError
GitResults == {"ok", "CalledProcessError"}

\* SaveApplyPatchHook._apply_patch: CalledProcessError is logged, not raised
apply_patch(git) ==
  [git_apply |-> IF git = "ok" THEN "applied" ELSE "failed", exc |-> "none"]

PatchOut(w, g, e) == [written |-> w, git_apply |-> g, exc |-> e]

\* faulty variant: the patch is applied whatever the repository type
patch_hook_mut_any_repo(acts, instance, i, git) ==
  LET written == save_patch(i) IN
  IF written = "none" THEN PatchOut("none", "not_run", "none")
  ELSE IF ~acts.apply_patch_locally THEN PatchOut(written, "not_run", "none")
  ELSE PatchOut(written, apply_patch(git).git_apply, apply_patch(git).exc)

\* SaveApplyPatchHook.on_instance_completed
patch_hook_completed(acts, instance, i, git) ==
  LET written == save_patch(i) IN
  IF written = "none" THEN PatchOut("none", "not_run", "none")
  ELSE IF ~acts.apply_patch_locally THEN PatchOut(written, "not_run", "none")
  ELSE IF instance.repo_type # "local"
    THEN PatchOut(written, "not_run", "none")
  ELSE PatchOut(written, apply_patch(git).git_apply, apply_patch(git).exc)

\* What GitHub holds for the data path: whether the path is an issue URL,
\* whether the lookups get through, and the issue's state.
GithubWorlds ==
  [url : {"issue", "invalid"}, lookup : {"ok", "error"},
   state : {"open", "closed"}, assignee : BOOLEAN, locked : BOOLEAN,
   commits : BOOLEAN]

PrCheck(r, e, l) == [ret |-> r, exc |-> e, lookups |-> l]

\* faulty variant: associated commits never decline
should_open_pr_mut_ignore_commits(acts, i, gh) ==
  IF ~truthy(get_submission(i)) THEN PrCheck(FALSE, "none", <<>>)
  ELSE IF i.exit_status # "submitted" THEN PrCheck(FALSE, "none", <<>>)
  ELSE IF gh.url = "invalid"
    THEN PrCheck(FALSE, "none", <<"get_gh_issue_data">>)
  ELSE IF gh.lookup = "error"
    THEN PrCheck(FALSE, "Exception", <<"get_gh_issue_data">>)
  ELSE IF gh.state # "open"
    THEN PrCheck(FALSE, "none", <<"get_gh_issue_data">>)
  ELSE IF gh.assignee THEN PrCheck(FALSE, "none", <<"get_gh_issue_data">>)
  ELSE IF gh.locked THEN PrCheck(FALSE, "none", <<"get_gh_issue_data">>)
  ELSE PrCheck(TRUE, "none",
               <<"get_gh_issue_data", "get_associated_commit_urls">>)

\* OpenPRHook.should_open_pr: InvalidGithubURL declines; any other failure
\* of the lookup is raised
should_open_pr(acts, i, gh) ==
  IF ~truthy(get_submission(i)) THEN PrCheck(FALSE, "none", <<>>)
  ELSE IF i.exit_status # "submitted" THEN PrCheck(FALSE, "none", <<>>)
  ELSE IF gh.url = "invalid"
    THEN PrCheck(FALSE, "none", <<"get_gh_issue_data">>)
  ELSE IF gh.lookup = "error"
    THEN PrCheck(FALSE, "Exception", <<"get_gh_issue_data">>)
  ELSE IF gh.state # "open"
    THEN PrCheck(FALSE, "none", <<"get_gh_issue_data">>)
  ELSE IF gh.assignee THEN PrCheck(FALSE, "none", <<"get_gh_issue_data">>)
  ELSE IF gh.locked THEN PrCheck(FALSE, "none", <<"get_gh_issue_data">>)
  ELSE IF gh.commits /\ acts.skip_if_commits_reference_issue
    THEN PrCheck(FALSE, "none",
                 <<"get_gh_issue_data", "get_associated_commit_urls">>)
  ELSE PrCheck(TRUE, "none",
               <<"get_gh_issue_data", "get_associated_commit_urls">>)

PrOut(c, l, e) == [pr_called |-> c, lookups |-> l, exc |-> e]

\* OpenPRHook.on_instance_completed:
\*   if self._open_pr and self.should_open_pr(info): self._env.open_pr(...)
open_pr_hook_completed(acts, i, gh) ==
  IF ~acts.open_pr THEN PrOut(FALSE, <<>>, "none")
  ELSE LET c == should_open_pr(acts, i, gh) IN
       PrOut(c.exc = "none" /\ c.ret, c.lookups, c.exc)

NoPatchOut == PatchOut("none", "not_run", "none")
NoPrOut == PrOut(FALSE, <<>>, "none")
NoHookIn ==
  [instance |-> [instance_id |-> <<>>, repo_type |-> "none"],
   info |-> [exit_status |-> "none", submission |-> "no_key"],
   git |-> "none",
   gh |-> "none"]
NoHookOut == [patch |-> NoPatchOut, pr |-> NoPrOut, called |-> <<>>]

RepoTypes == {"local", "github"}

InitHooks ==
  /\ actions \in [open_pr : BOOLEAN, apply_patch_locally : BOOLEAN,
                  skip_if_commits_reference_issue : BOOLEAN]
  /\ patches = [id \in InstanceIds |-> "none"]
  /\ hpc = "patch"
  /\ hook_in = NoHookIn
  /\ hook_out = NoHookOut

\* write_text replaces the file; nothing is written without a patch
WritePatch(dir, instance_id, written) ==
  IF written = "none" THEN dir ELSE [dir EXCEPT ![instance_id] = written]

\* hooks[1].on_instance_completed(info=info, trajectory=trajectory)
PatchHookCompleted ==
  /\ hpc = "patch"
  /\ \E id \in InstanceIds, rt \in RepoTypes, i \in Infos, git \in GitResults :
       LET instance == [instance_id |-> id, repo_type |-> rt]
           out == patch_hook_completed(actions, instance, i, git) IN
       /\ hook_in' = [instance |-> instance, info |-> i, git |-> git,
                      gh |-> "none"]
       /\ hook_out' = [patch |-> out, pr |-> NoPrOut,
                       called |-> <<hooks[1]>>]
       /\ patches' = WritePatch(patches, id, out.written)
       /\ hpc' = IF out.exc = "none" THEN "open_pr" ELSE "done"
  /\ UNCHANGED actions

\* hooks[2].on_instance_completed(info=info, trajectory=trajectory)
OpenPRHookCompleted ==
  /\ hpc = "open_pr"
  /\ \E gh \in GithubWorlds :
       LET out == open_pr_hook_completed(actions, hook_in.info, gh) IN
       /\ hook_in' = [hook_in EXCEPT !.gh = gh]
       /\ hook_out' = [hook_out EXCEPT !.pr = out,
                                       !.called = @ \o <<hooks[2]>>]
  /\ hpc' = "done"
  /\ UNCHANGED <<actions, patches>>

\* what env.reset and agent.run can come to for one instance
TaskResults ==
  {[kind |-> "reset_none", exit_status |-> "none", submission |-> "no_key"],
   [kind |-> "returned", exit_status |-> "submitted", submission |-> "patch"],
   [kind |-> "returned", exit_status |-> "early_exit",
    submission |-> "no_key"],
   [kind |-> "returned", exit_status |-> "exit_cost",
    submission |-> "no_key"],
   [kind |-> "Exception", exit_status |-> "none", submission |-> "no_key"],
   [kind |-> "KeyboardInterrupt", exit_status |-> "none",
    submission |-> "no_key"]}

NoRunInfo == [exit_status |-> "none", submission |-> "no_key"]

\* self.env.record before the first env.reset
NoRecord == <<>>

\* nothing has happened in the batch yet
NoBatch ==
  [on_start |-> 0, on_end |-> 0, attempted |-> <<>>, returned |-> <<>>,
   failed |-> <<>>, reset_container |-> 0, close |-> 0, record |-> NoRecord]

InitMain ==
  /\ script_args \in [instance_filter : Filters, skip_existing : BOOLEAN,
                      raise_exceptions : BOOLEAN]
  /\ traj_dir \in [InstanceIds -> TrajFiles]
  /\ preds = <<>>
  /\ mpc = "main"
  /\ index = 0
  /\ hook_log = <<>>
  /\ env_log = <<>>
  /\ skip_ret = "none"
  /\ fs_ops = <<>>
  /\ info = NoRunInfo
  /\ batch = NoBatch
  /\ events = <<>>

\* Main.main up to the loop: for hook in self.hooks: hook.on_start()
MainStart ==
  /\ mpc = "main"
  /\ mpc' = "run"
  /\ hook_log' = FireAll("on_start")
  /\ batch' = [batch EXCEPT !.on_start = @ + 1]
  /\ UNCHANGED <<script_args, traj_dir, preds, index, env_log, skip_ret,
                 fs_ops, info, events>>

\* faulty variant: the container is reset after an interrupt as well
AfterRun_mut_reset_on_interrupt(exc) ==
  CASE exc = "_ContinueLoop" ->
         [mpc |-> "run", index |-> index + 1, env |-> <<>>]
    [] exc = "KeyboardInterrupt" ->
         [mpc |-> "end", index |-> index,
          env |-> <<"close", "reset_container">>]
    [] exc = "Exception" ->
         IF script_args.raise_exceptions
           THEN [mpc |-> "raised", index |-> index, env |-> <<>>]
           ELSE [mpc |-> "run", index |-> index + 1,
                 env |-> <<"reset_container">>]
    [] exc = "none" ->
         [mpc |-> "run", index |-> index + 1, env |-> <<>>]

\* faulty variant: an interrupt leaves Main.main at once
AfterRun_mut_interrupt_aborts(exc) ==
  CASE exc = "_ContinueLoop" ->
         [mpc |-> "run", index |-> index + 1, env |-> <<>>]
    [] exc = "KeyboardInterrupt" ->
         [mpc |-> "raised", index |-> index, env |-> <<"close">>]
    [] exc = "Exception" ->
         IF script_args.raise_exceptions
           THEN [mpc |-> "raised", index |-> index, env |-> <<>>]
           ELSE [mpc |-> "run", index |-> index + 1,
                 env |-> <<"reset_container">>]
    [] exc = "none" ->
         [mpc |-> "run", index |-> index + 1, env |-> <<>>]

\* faulty variant: a failed instance is tried again
AfterRun_mut_retry_failed(exc) ==
  CASE exc = "_ContinueLoop" ->
         [mpc |-> "run", index |-> index + 1, env |-> <<>>]
    [] exc = "KeyboardInterrupt" ->
         [mpc |-> "end", index |-> index, env |-> <<"close">>]
    [] exc = "Exception" ->
         IF script_args.raise_exceptions
           THEN [mpc |-> "raised", index |-> index, env |-> <<>>]
           ELSE [mpc |-> "run",
                 index |-> IF \E k \in DOMAIN batch.failed : batch.failed[k] = index
                             THEN index + 1 ELSE index,
                 env |-> <<"reset_container">>]
    [] exc = "none" ->
         [mpc |-> "run", index |-> index + 1, env |-> <<>>]

\* The handlers of Main.main around self.run(index), for what run raised
\* at this index: the position and the environment calls they leave.
AfterRun(exc) ==
  CASE exc = "_ContinueLoop" ->
         [mpc |-> "run", index |-> index + 1, env |-> <<>>]
    [] exc = "KeyboardInterrupt" ->
         [mpc |-> "end", index |-> index, env |-> <<"close">>]
    [] exc = "Exception" ->
         IF script_args.raise_exceptions
           THEN [mpc |-> "raised", index |-> index, env |-> <<>>]
           ELSE [mpc |-> "run", index |-> index + 1,
                 env |-> <<"reset_container">>]
    [] exc = "none" ->
         [mpc |-> "run", index |-> index + 1, env |-> <<>>]

\* how often call stands in a sequence of environment calls
Count(calls_, call) == Cardinality({k \in DOMAIN calls_ : calls_[k] = call})

\* the environment calls as events
EnvEvents(env) == [k \in DOMAIN env |-> <<"env", env[k]>>]

\* the batch's counts after the handlers of Main.main ran for exc
BatchAfter(b, exc, env) ==
  [b EXCEPT !.failed = IF exc = "Exception" THEN Append(@, index) ELSE @,
            !.reset_container = @ + Count(env, "reset_container"),
            !.close = @ + Count(env, "close")]

\* Main.run(index) up to the skip decision: the instance-start callbacks,
\* should_skip, and on a skip the skip callbacks and _ContinueLoop.
RunStart ==
  /\ mpc = "run"
  /\ index < Len(data)
  /\ LET instance_id == data[index + 1]
         sk == should_skip(script_args, traj_dir, instance_id)
         exc == IF sk.exc # "none" THEN "Exception" ELSE "_ContinueLoop"
         after == AfterRun(exc)
         started == [batch EXCEPT !.attempted = Append(@, index)] IN
     /\ traj_dir' = sk.traj_dir
     /\ fs_ops' = sk.ops
     /\ skip_ret' = IF sk.exc # "none" THEN sk.exc
                    ELSE IF sk.ret THEN "True" ELSE "False"
     /\ IF sk.exc # "none"
          THEN /\ hook_log' = FireAll("on_instance_start")
               /\ events' = FireAll("on_instance_start")
                            \o <<<<"Main", "should_skip">>>>
                            \o EnvEvents(after.env)
               /\ env_log' = after.env
               /\ mpc' = after.mpc
               /\ index' = after.index
               /\ batch' = BatchAfter(started, exc, after.env)
        ELSE IF sk.ret
          THEN /\ hook_log' = FireAll("on_instance_start")
                              \o FireAll("on_instance_skipped")
               /\ events' = FireAll("on_instance_start")
                            \o <<<<"Main", "should_skip">>>>
                            \o FireAll("on_instance_skipped")
                            \o EnvEvents(after.env)
               /\ env_log' = after.env
               /\ mpc' = after.mpc
               /\ index' = after.index
               /\ batch' = BatchAfter(started, exc, after.env)
        ELSE /\ hook_log' = FireAll("on_instance_start")
             /\ events' = FireAll("on_instance_start")
                          \o <<<<"Main", "should_skip">>>>
             /\ env_log' = <<>>
             /\ mpc' = "task"
             /\ index' = index
             /\ batch' = started
  /\ UNCHANGED <<script_args, preds, info>>

\* The file the agent leaves as <instance_id>.traj: the finished trajectory
\* when it returned; when it failed, nothing new or a file cut short.
AgentFiles(r, old) ==
  CASE r.kind = "returned" -> {Traj(r.exit_status)}
    [] r.kind = "Exception" -> {old, Partial, Traj("no_key")}
    [] r.kind = "KeyboardInterrupt" -> {old, Partial}
    [] r.kind = "reset_none" -> {old}

\* the name of the trajectory directory, all_preds.jsonl's "model" field
run_name == "traj_dir.name"

\* faulty variant: the patch of a record is always null
save_predictions_mut_null_patch(ps, instance_id, i) ==
  Append(ps, [model |-> run_name, instance_id |-> instance_id,
              model_patch |-> "None"])

\* Main._save_predictions: one line appended to all_preds.jsonl, with
\*   model_patch = info["submission"] if "submission" in info else None
save_predictions(ps, instance_id, i) ==
  Append(ps, [model |-> run_name, instance_id |-> instance_id,
              model_patch |-> IF i.submission # "no_key" THEN i.submission
                              ELSE "None"])

\* where env.reset and agent.run stop: a failure or an interrupt comes out
\* of either call
Stages(r) ==
  CASE r.kind = "reset_none" -> {<<<<"env", "reset">>>>}
    [] r.kind = "returned" -> {<<<<"env", "reset">>, <<"agent", "run">>>>}
    [] OTHER -> {<<<<"env", "reset">>>>,
                 <<<<"env", "reset">>, <<"agent", "run">>>>}

\* env.reset(index): the instance at index becomes the environment's
\* active record, whether or not the provisioning that follows succeeds
env_reset(b, instance_id) == [b EXCEPT !.record = instance_id]

\* the instance the warning of Main.main names:
\*   if self.env.record: "Failed on {self.env.record['instance_id']}"
\*   else: "Failed on unknown instance"
failed_on(env_record) ==
  IF env_record = NoRecord THEN <<"unknown instance">> ELSE env_record

\* Main.run(index) after the skip decision: env.reset, agent.run and
\* _save_predictions.
RunTask ==
  /\ mpc = "task"
  /\ \E r \in TaskResults :
       LET instance_id == data[index + 1]
           exc == IF r.kind = "reset_none" THEN "_ContinueLoop" ELSE r.kind
           after == AfterRun(exc)
           i == [exit_status |-> r.exit_status,
                 submission |-> r.submission] IN
       /\ \E f \in AgentFiles(r, traj_dir[instance_id]) :
            traj_dir' = [traj_dir EXCEPT ![instance_id] = f]
       /\ IF r.kind = "returned"
            THEN /\ preds' = save_predictions(preds, instance_id, i)
                 /\ info' = i
                 /\ events' = events \o <<<<"env", "reset">>, <<"agent", "run">>,
                                          <<"Main", "_save_predictions">>>>
                 /\ env_log' = <<"reset">>
                 /\ mpc' = "completed"
                 /\ index' = index
                 /\ batch' = [env_reset(batch, instance_id)
                                 EXCEPT !.returned = Append(@, index)]
            ELSE /\ preds' = preds
                 /\ info' = info
                 /\ \E st \in Stages(r) :
                      events' = events \o st \o EnvEvents(after.env)
                 /\ env_log' = <<"reset">> \o after.env
                 /\ mpc' = after.mpc
                 /\ index' = after.index
                 /\ batch' = BatchAfter(env_reset(batch, instance_id), exc,
                                        after.env)
  /\ UNCHANGED <<script_args, skip_ret, fs_ops, hook_log>>

\* faulty variant: the hooks are called last to first
completed_hooks_mut_reversed(acts, instance, i, git, gh) ==
  [patch |-> patch_hook_completed(acts, instance, i, git),
   pr |-> open_pr_hook_completed(acts, i, gh),
   called |-> <<hooks[2], hooks[1]>>]

\* for hook in self.hooks: hook.on_instance_completed(info=.., trajectory=..)
\* A callback that raises ends the loop: nothing catches it in Main.run.
completed_hooks(acts, instance, i, git, gh) ==
  LET p == patch_hook_completed(acts, instance, i, git) IN
  IF p.exc # "none"
    THEN [patch |-> p, pr |-> NoPrOut, called |-> <<hooks[1]>>]
    ELSE [patch |-> p, pr |-> open_pr_hook_completed(acts, i, gh),
          called |-> hooks]

\* what the completion callbacks raised into Main.run
HookExc(out) ==
  IF out.patch.exc # "none" THEN out.patch.exc ELSE out.pr.exc

\* GitHub as the batch meets it: an open issue nobody works on, with the
\* lookup getting through or not
GithubWorldsMain ==
  {[url |-> "issue", lookup |-> l, state |-> "open", assignee |-> FALSE,
    locked |-> FALSE, commits |-> FALSE] : l \in {"ok", "error"}}

\* Main.run(index) after _save_predictions: the completion callbacks.
RunCompleted ==
  /\ mpc = "completed"
  /\ \E gh \in GithubWorldsMain :
       LET instance == [instance_id |-> data[index + 1],
                        repo_type |-> "github"]
           out == completed_hooks(actions, instance, info, "ok", gh)
           exc == IF HookExc(out) = "none" THEN "none" ELSE "Exception"
           after == AfterRun(exc) IN
       /\ hook_in' = [instance |-> instance, info |-> info, git |-> "ok",
                      gh |-> gh]
       /\ hook_out' = out
       /\ patches' = WritePatch(patches, instance.instance_id,
                                out.patch.written)
       /\ hook_log' = hook_log
                      \o [h \in 1..Len(out.called) |->
                            <<out.called[h], "on_instance_completed">>]
       /\ events' = events
                    \o [h \in 1..Len(out.called) |->
                          <<out.called[h], "on_instance_completed">>]
                    \o EnvEvents(after.env)
       /\ env_log' = env_log \o after.env
       /\ mpc' = after.mpc
       /\ index' = after.index
       /\ batch' = BatchAfter(batch, exc, after.env)
  /\ UNCHANGED <<script_args, traj_dir, preds, skip_ret, fs_ops, info,
                 actions, hpc>>

\* Main.main after the loop: for hook in self.hooks: hook.on_end()
MainEnd ==
  /\ \/ mpc = "run" /\ index = Len(data)
     \/ mpc = "end"
  /\ mpc' = "done"
  /\ hook_log' = FireAll("on_end")
  /\ env_log' = <<>>
  /\ batch' = [batch EXCEPT !.on_end = @ + 1]
  /\ events' = <<>>
  /\ UNCHANGED <<script_args, traj_dir, preds, index, skip_ret, fs_ops,
                 info>>

(***************************************************************************)
(* Construction of a model: get_model, BaseModel.__init__ and the          *)
(* __init__ of the class chosen.  A model name is the sequence of its      *)
(* pieces: ":" and "." are pieces of their own, and a word that a          *)
(* startswith test looks for (gpt, claude, bedrock, ollama, ft, azure) is  *)
(* a piece of its own where it begins the name or follows a ":".  So       *)
(* "ft:gpt-4-0613:x" is <<"ft", ":", "gpt", "-4-0613", ":", "x">>.  Costs  *)
(* are in units of 1e-9 dollars per token.                                 *)
(***************************************************************************)
Md(ctx, cin, cout) ==
  [max_context |-> ctx, cost_per_input_token |-> cin,
   cost_per_output_token |-> cout]

\* the metadata {} of the models that call no provider
EmptyMd == Md(-1, -1, -1)

\* an empty table
NoTable == [k \in {} |-> EmptyMd]

\* OpenAIModel.MODELS
OpenAIModel_MODELS ==
  (<<"gpt", "-3", ".", "5-turbo-0125">>
     :> Md(16385, 500, 1500))
  @@ (<<"gpt", "-3", ".", "5-turbo-1106">>
     :> Md(16385, 1500, 2000))
  @@ (<<"gpt", "-3", ".", "5-turbo-16k-0613">>
     :> Md(16385, 1500, 2000))
  @@ (<<"gpt", "-4-32k-0613">>
     :> Md(32768, 60000, 120000))
  @@ (<<"gpt", "-4-0613">>
     :> Md(8192, 30000, 60000))
  @@ (<<"gpt", "-4-1106-preview">>
     :> Md(128000, 10000, 30000))
  @@ (<<"gpt", "-4-0125-preview">>
     :> Md(128000, 10000, 30000))
  @@ (<<"gpt", "-4-turbo-2024-04-09">>
     :> Md(128000, 10000, 30000))

\* OpenAIModel.SHORTCUTS
OpenAIModel_SHORTCUTS ==
  (<<"gpt", "3">>
     :> <<"gpt", "-3", ".", "5-turbo-1106">>)
  @@ (<<"gpt", "3-legacy">>
     :> <<"gpt", "-3", ".", "5-turbo-16k-0613">>)
  @@ (<<"gpt", "4">>
     :> <<"gpt", "-4-1106-preview">>)
  @@ (<<"gpt", "4-legacy">>
     :> <<"gpt", "-4-0613">>)
  @@ (<<"gpt", "4-0125">>
     :> <<"gpt", "-4-0125-preview">>)
  @@ (<<"gpt", "3-0125">>
     :> <<"gpt", "-3", ".", "5-turbo-0125">>)
  @@ (<<"gpt", "4-turbo">>
     :> <<"gpt", "-4-turbo-2024-04-09">>)

\* AnthropicModel.MODELS
AnthropicModel_MODELS ==
  (<<"claude", "-instant">>
     :> Md(100000, 1630, 5510))
  @@ (<<"claude", "-2", ".", "0">>
     :> Md(100000, 11020, 32680))
  @@ (<<"claude", "-2", ".", "1">>
     :> Md(100000, 11020, 32680))
  @@ (<<"claude", "-3-opus-20240229">>
     :> Md(200000, 15000, 75000))
  @@ (<<"claude", "-3-sonnet-20240229">>
     :> Md(200000, 3000, 15000))
  @@ (<<"claude", "-3-haiku-20240307">>
     :> Md(200000, 250, 1250))

\* AnthropicModel.SHORTCUTS
AnthropicModel_SHORTCUTS ==
  (<<"claude", "-2">>
     :> <<"claude", "-2", ".", "1">>)
  @@ (<<"claude", "-opus">>
     :> <<"claude", "-3-opus-20240229">>)
  @@ (<<"claude", "-sonnet">>
     :> <<"claude", "-3-sonnet-20240229">>)
  @@ (<<"claude", "-haiku">>
     :> <<"claude", "-3-haiku-20240307">>)

\* BedrockModel.MODELS
BedrockModel_MODELS ==
  (<<"anthropic", ".", "claude-instant-v1">>
     :> Md(100000, 800, 2400))
  @@ (<<"anthropic", ".", "claude-v2">>
     :> Md(100000, 8000, 24000))
  @@ (<<"anthropic", ".", "claude-v2", ":", "1">>
     :> Md(100000, 8000, 24000))
  @@ (<<"anthropic", ".", "claude-3-opus-20240229-v1", ":", "0">>
     :> Md(200000, 15000, 75000))
  @@ (<<"anthropic", ".", "claude-3-sonnet-20240229-v1", ":", "0">>
     :> Md(200000, 3000, 15000))
  @@ (<<"anthropic", ".", "claude-3-haiku-20240307-v1", ":", "0">>
     :> Md(200000, 250, 1250))

\* TogetherModel.MODELS
TogetherModel_MODELS ==
  (<<"meta-llama/Llama-2-13b-chat-hf">>
     :> Md(4096, 225, 225))
  @@ (<<"meta-llama/Llama-2-70b-chat-hf">>
     :> Md(4096, 900, 900))
  @@ (<<"mistralai/Mistral-7B-Instruct-v0", ".", "2">>
     :> Md(32768, 200, 200))
  @@ (<<"togethercomputer/RedPajama-INCITE-7B-Chat">>
     :> Md(2048, 200, 200))
  @@ (<<"mistralai/Mixtral-8x7B-Instruct-v0", ".", "1">>
     :> Md(32768, 600, 600))

\* TogetherModel.SHORTCUTS
TogetherModel_SHORTCUTS ==
  (<<"llama13b">>
     :> <<"meta-llama/Llama-2-13b-chat-hf">>)
  @@ (<<"llama70b">>
     :> <<"meta-llama/Llama-2-70b-chat-hf">>)
  @@ (<<"mistral7b">>
     :> <<"mistralai/Mistral-7B-Instruct-v0", ".", "2">>)
  @@ (<<"mixtral8x7b">>
     :> <<"mistralai/Mixtral-8x7B-Instruct-v0", ".", "1">>)
  @@ (<<"redpajama7b">>
     :> <<"togethercomputer/RedPajama-INCITE-7B-Chat">>)

\* OllamaModel.MODELS: a defaultdict, every key reads as this entry
OllamaDefault == Md(128000, 0, 0)

\* cls.MODELS as the dict it is (the defaultdict holds no key)
ClassMODELS(cls) ==
  CASE cls = "OpenAIModel" -> OpenAIModel_MODELS
    [] cls = "AnthropicModel" -> AnthropicModel_MODELS
    [] cls = "BedrockModel" -> BedrockModel_MODELS
    [] cls = "TogetherModel" -> TogetherModel_MODELS
    [] cls = "HumanModel" -> (<<"human">> :> EmptyMd)
    [] cls = "HumanThoughtModel" -> (<<"human_thought">> :> EmptyMd)
    [] cls = "ReplayModel" -> (<<"replay">> :> EmptyMd)
    [] cls = "InstantEmptySubmitTestModel" ->
         (<<"instant_empty_submit">> :> EmptyMd)
    [] OTHER -> NoTable

\* cls.SHORTCUTS
ClassSHORTCUTS(cls) ==
  CASE cls = "OpenAIModel" -> OpenAIModel_SHORTCUTS
    [] cls = "AnthropicModel" -> AnthropicModel_SHORTCUTS
    [] cls = "TogetherModel" -> TogetherModel_SHORTCUTS
    [] OTHER -> NoTable

\* self.MODELS[key]: KeyError for a missing key, but for the defaultdict
ClassLookup(cls, key) ==
  IF cls = "OllamaModel" THEN [exc |-> "none", md |-> OllamaDefault]
  ELSE IF key \in DOMAIN ClassMODELS(cls)
    THEN [exc |-> "none", md |-> ClassMODELS(cls)[key]]
  ELSE [exc |-> "KeyError", md |-> EmptyMd]

\* MODELS = {**{dest: self.MODELS[src] for dest, src in SHORTCUTS.items()},
\*           **self.MODELS}
Merged(cls) ==
  [k \in DOMAIN ClassSHORTCUTS(cls) \cup DOMAIN ClassMODELS(cls) |->
     IF k \in DOMAIN ClassMODELS(cls) THEN ClassMODELS(cls)[k]
     ELSE ClassMODELS(cls)[ClassSHORTCUTS(cls)[k]]]

\* name.startswith(prefix)
StartsWith(name, prefix) ==
  /\ Len(name) >= Len(prefix)
  /\ SubSeq(name, 1, Len(prefix)) = prefix

\* the place of the first ":" of name from place k on (Len(name) + 1: none)
RECURSIVE NextColon(_, _)
NextColon(name, k) ==
  IF k > Len(name) THEN Len(name) + 1
  ELSE IF name[k] = ":" THEN k
  ELSE NextColon(name, k + 1)

\* name.split(":")[1], for a name that holds a ":"
SplitColon1(name) ==
  LET c1 == NextColon(name, 1) IN
  SubSeq(name, c1 + 1, NextColon(name, c1 + 1) - 1)

\* name.split(prefix, 1)[1], for a name that starts with prefix
AfterPrefix(name, prefix) == SubSeq(name, Len(prefix) + 1, Len(name))

\* api_model.split(".")[0]
RECURSIVE SplitDot0(_)
SplitDot0(name) ==
  IF name = <<>> \/ Head(name) = "." THEN <<>>
  ELSE <<Head(name)>> \o SplitDot0(Tail(name))

Built(cls, api, md_, exc) ==
  [cls |-> cls, api_model |-> api, model_metadata |-> md_, exc |-> exc]

Failed(cls, exc) == Built(cls, <<>>, EmptyMd, exc)

\* BaseModel.__init__ in class cls
base_init(cls, name) ==
  LET api_model == IF name \in DOMAIN ClassSHORTCUTS(cls)
                     THEN ClassSHORTCUTS(cls)[name] ELSE name
      MODELS_ == Merged(cls) IN
  IF name \in DOMAIN MODELS_
    THEN Built(cls, api_model, MODELS_[name], "none")
  ELSE IF StartsWith(name, <<"ft", ":">>)
    THEN LET ft_model == SplitColon1(name) IN
         IF ft_model \in DOMAIN MODELS_
           THEN Built(cls, api_model, MODELS_[ft_model], "none")
           ELSE Failed(cls, "KeyError")
  ELSE IF StartsWith(name, <<"ollama", ":">>)
    THEN LET api == AfterPrefix(name, <<"ollama", ":">>)
             found == ClassLookup(cls, api) IN
         IF found.exc = "none" THEN Built(cls, api, found.md, "none")
         ELSE Failed(cls, found.exc)
  ELSE IF StartsWith(name, <<"azure", ":">>)
    THEN LET azure_model == AfterPrefix(name, <<"azure", ":">>) IN
         IF azure_model \in DOMAIN MODELS_
           THEN Built(cls, api_model, MODELS_[azure_model], "none")
           ELSE Failed(cls, "KeyError")
  ELSE IF StartsWith(name, <<"bedrock", ":">>)
    THEN LET api == AfterPrefix(name, <<"bedrock", ":">>) IN
         IF api \in DOMAIN MODELS_
           THEN Built(cls, api, MODELS_[api], "none")
           ELSE Failed(cls, "KeyError")
  ELSE Failed(cls, "ValueError")

\* the providers BedrockModel.__init__ names as not supported
UnsupportedProviders == {"ai21", "amazon", "cohere", "meta", "mistral"}

\* BedrockModel.__init__
bedrock_init(name) ==
  LET b == base_init("BedrockModel", name)
      model_provider == SplitDot0(b.api_model) IN
  IF b.exc # "none" THEN b
  ELSE IF model_provider = <<"anthropic">> THEN b
  ELSE IF \E p \in UnsupportedProviders : model_provider = <<p>>
    THEN Failed("BedrockModel", "NotImplementedError")
  ELSE Failed("BedrockModel", "ValueError")

\* OpenAIModel.__init__: an azure name takes the deployment of keys.cfg
openai_init(name) ==
  LET b == base_init("OpenAIModel", name) IN
  IF b.exc # "none" THEN b
  ELSE IF StartsWith(name, <<"azure">>)
    THEN [b EXCEPT !.api_model = <<"cfg[AZURE_OPENAI_DEPLOYMENT]">>]
  ELSE b

\* the __init__ of class cls
class_init(cls, name) ==
  CASE cls = "OpenAIModel" -> openai_init(name)
    [] cls = "BedrockModel" -> bedrock_init(name)
    [] OTHER -> base_init(cls, name)

\* get_model
get_model(name) ==
  IF name = <<"instant_empty_submit">>
    THEN class_init("InstantEmptySubmitTestModel", name)
  ELSE IF name = <<"human">> THEN class_init("HumanModel", name)
  ELSE IF name = <<"human_thought">>
    THEN class_init("HumanThoughtModel", name)
  ELSE IF name = <<"replay">> THEN class_init("ReplayModel", name)
  ELSE IF \/ StartsWith(name, <<"gpt">>)
          \/ StartsWith(name, <<"ft", ":", "gpt">>)
          \/ StartsWith(name, <<"azure", ":", "gpt">>)
    THEN class_init("OpenAIModel", name)
  ELSE IF StartsWith(name, <<"claude">>)
    THEN class_init("AnthropicModel", name)
  ELSE IF StartsWith(name, <<"bedrock">>) THEN class_init("BedrockModel", name)
  ELSE IF StartsWith(name, <<"ollama">>) THEN class_init("OllamaModel", name)
  ELSE IF name \in DOMAIN TogetherModel_SHORTCUTS
    THEN class_init("TogetherModel", name)
  ELSE Failed("none", "ValueError")

\* ids that stand in no table
UnknownIds ==
  {<<"gpt", "-5">>, <<"gpt", "5">>, <<"llama2">>, <<"llama2", ":", "13b">>,
   <<"foo", ".", "bar">>, <<"anthropic", ".", "claude-v9">>, <<>>}
  \cup {<<p, ".", "model-v1">> : p \in UnsupportedProviders}

WithPrefix(prefix, ids) == {<<prefix, ":">> \o id : id \in ids}

\* with the suffixes a fine-tuned model's name carries
WithSuffix(names) ==
  names \cup {n \o <<":", "org">> : n \in names}
        \cup {n \o <<":", "org", ":", "id">> : n \in names}

\* the names a model is asked for
ModelNames ==
  DOMAIN OpenAIModel_MODELS \cup DOMAIN OpenAIModel_SHORTCUTS
  \cup DOMAIN AnthropicModel_MODELS \cup DOMAIN AnthropicModel_SHORTCUTS
  \cup DOMAIN BedrockModel_MODELS
  \cup DOMAIN TogetherModel_MODELS \cup DOMAIN TogetherModel_SHORTCUTS
  \cup {<<"human">>, <<"human_thought">>, <<"replay">>,
        <<"instant_empty_submit">>, <<"claude", "-4">>, <<"bedrock">>,
        <<"ollama">>}
  \cup UnknownIds
  \cup WithSuffix(WithPrefix("ft", {<<"gpt", "-4-0613">>, <<"gpt", "4">>,
                                    <<"gpt", "-5">>, <<"llama2">>}))
  \cup WithPrefix("azure", DOMAIN OpenAIModel_MODELS
                           \cup {<<"gpt", "4">>, <<"gpt", "-5">>})
  \cup WithPrefix("bedrock", DOMAIN BedrockModel_MODELS \cup UnknownIds)
  \cup WithPrefix("ollama", UnknownIds \cup {<<"gpt", "-4-0613">>})

NotBuilt == Built("none", <<>>, EmptyMd, "none")

InitNames ==
  /\ model_name \in ModelNames
  /\ bpc = "args"
  /\ built = NotBuilt

\* no model is asked for, for the other specifications
NamesAtRest ==
  /\ model_name = <<"gpt", "4">>
  /\ bpc = "args"
  /\ built = NotBuilt

\* model = get_model(args)
GetModel ==
  /\ bpc = "args"
  /\ built' = get_model(model_name)
  /\ bpc' = "built"
  /\ UNCHANGED model_name

(***************************************************************************)
(* ReplayModel: the recorded actions of trajectories, handed out in order  *)
(***************************************************************************)
MaxReplays == 2
MaxTrajLen == 2

\* the actions a recorded trajectory is made of
RecordedActions == {"ls", "submit"}

\* the trajectories of one line of the replay file, empty ones included
Trajectories ==
  UNION {[1..n -> RecordedActions] : n \in 0..MaxTrajLen}

\* the replay files: at least one line each
ReplayFiles ==
  UNION {[1..n -> Trajectories] : n \in 1..MaxReplays}

\* ReplayModel.__init__ on an existing replay file
replay_init(file) ==
  [replays |-> file, replay_idx |-> 0, action_idx |-> 0]

\* query that keeps the action index when the action is submit
replay_query_mut_no_reset(m) ==
  IF \/ m.replay_idx >= Len(m.replays)
     \/ m.action_idx >= Len(m.replays[m.replay_idx + 1])
  THEN [model |-> m, action |-> "none", raised |-> "IndexError"]
  ELSE LET action == m.replays[m.replay_idx + 1][m.action_idx + 1]
       IN  [model |-> [m EXCEPT !.action_idx = @ + 1,
                                !.replay_idx =
                                  IF action = "submit" THEN @ + 1 ELSE @],
            action |-> action, raised |-> "none"]

\* ReplayModel.query: the indexes are 0-based in the code, sequences are
\* 1-based here; an index past the end of a list raises IndexError before
\* anything is assigned.
replay_query(m) ==
  IF \/ m.replay_idx >= Len(m.replays)
     \/ m.action_idx >= Len(m.replays[m.replay_idx + 1])
  THEN [model |-> m, action |-> "none", raised |-> "IndexError"]
  ELSE LET action == m.replays[m.replay_idx + 1][m.action_idx + 1]
           stepped == [m EXCEPT !.action_idx = @ + 1]
       IN  [model |-> IF action = "submit"
                      THEN [stepped EXCEPT !.replay_idx = @ + 1,
                                           !.action_idx = 0]
                      ELSE stepped,
            action |-> action, raised |-> "none"]

InitReplay ==
  /\ replay_model \in {replay_init(f) : f \in ReplayFiles}
  /\ replay_log = [returned |-> <<>>, raised |-> "none"]

ReplayAtRest ==
  /\ replay_model = replay_init(<<<<"submit">>>>)
  /\ replay_log = [returned |-> <<>>, raised |-> "none"]

\* One call of query by the agent; an IndexError is not handled by the
\* agent, so no call follows one that raised.
ReplayQuery ==
  /\ replay_log.raised = "none"
  /\ LET r == replay_query(replay_model)
     IN  /\ replay_model' = r.model
         /\ replay_log' =
              [returned |-> IF r.raised = "none"
                            THEN Append(replay_log.returned, r.action)
                            ELSE replay_log.returned,
               raised |-> r.raised]

(***************************************************************************)
(* InstantEmptySubmitTestModel: two scripted responses                     *)
(***************************************************************************)
MaxStubCalls == 4

\* the two responses, as their lines ("FENCE" is the line of three
\* backquotes); each ends with a newline, hence the empty last line
CreateResponse ==
  <<"DISCUSSION", "blah blah", "", "FENCE", "create reproduce.py", "FENCE",
    "">>

SubmitResponse ==
  <<"DISCUSSION", "blargh glargh", "", "FENCE", "submit", "FENCE", "">>

\* InstantEmptySubmitTestModel.__init__
stub_init == [action_idx |-> 0]

\* query whose second branch leaves _action_idx at 1
stub_query_mut_stays(m) ==
  IF m.action_idx = 0
  THEN [model |-> [m EXCEPT !.action_idx = 1], action |-> CreateResponse]
  ELSE [model |-> m, action |-> SubmitResponse]

\* InstantEmptySubmitTestModel.query; with _action_idx neither 0 nor 1 no
\* branch assigns action and the return raises UnboundLocalError
stub_query(m) ==
  IF m.action_idx = 0
  THEN [model |-> [m EXCEPT !.action_idx = 1], action |-> CreateResponse]
  ELSE IF m.action_idx = 1
  THEN [model |-> [m EXCEPT !.action_idx = 0], action |-> SubmitResponse]
  ELSE [model |-> m, action |-> <<"UnboundLocalError">>]

InitStub ==
  /\ stub_model = stub_init
  /\ stub_log = <<>>

\* one call of query by the agent, one per turn
StubQuery ==
  /\ Len(stub_log) < MaxStubCalls
  /\ LET r == stub_query(stub_model)
     IN  /\ stub_model' = r.model
         /\ stub_log' = Append(stub_log, r.action)

(***************************************************************************)
(* HumanModel: the operator types the action                               *)
(*                                                                         *)
(* A line is a sequence of pieces: a piece is one blank or one word, and   *)
(* two words are always separated by a blank.  A text of several lines is  *)
(* the sequence of their pieces with the piece "\n" between two lines.     *)
(***************************************************************************)
MaxLines == 3

\* the lines the operator may type
Lines ==
  { <<>>, <<" ">>, <<"x">>,
    <<"edit", " ", "x">>, <<" ", "edit">>,
    <<"end_of_edit", " ">>, <<" ", "end_of_edit">>,
    <<" ", "start_multiline_command">>,
    <<"end_multiline_command", " ">> }

\* str.split(): the words of the line
split(line) ==
  LET F[i \in 0..Len(line)] ==
        IF i = 0 THEN <<>>
        ELSE IF line[i] = " " THEN F[i - 1] ELSE Append(F[i - 1], line[i])
  IN  F[Len(line)]

\* str.rstrip(): the line without its trailing blanks
rstrip(line) ==
  LET Blank(k) == \A j \in k..Len(line) : line[j] = " "
      n == CHOOSE k \in 0..Len(line) :
             /\ Blank(k + 1)
             /\ k > 0 => line[k] # " "
  IN  SubSeq(line, 1, n)

\* str.strip(): the line without its leading and trailing blanks
strip(line) ==
  LET r == rstrip(line)
      n == CHOOSE k \in 1..(Len(r) + 1) :
             /\ \A j \in 1..(k - 1) : r[j] = " "
             /\ k <= Len(r) => r[k] # " "
  IN  SubSeq(r, n, Len(r))

\* "\n".join(buffer)
join(buffer) ==
  LET F[i \in 0..Len(buffer)] ==
        IF i = 0 THEN <<>>
        ELSE IF i = 1 THEN buffer[1]
        ELSE F[i - 1] \o <<"\n">> \o buffer[i]
  IN  F[Len(buffer)]

\* the commands handed to HumanModel.__init__: none, or edit with its
\* end_name
CommandSets == { {}, {[name |-> "edit", end_name |-> "end_of_edit"]},
                 {[name |-> "edit", end_name |-> "none"]} }

\* HumanModel.__init__: multi_line_command_endings
human_init(cmds) ==
  LET named == {c \in cmds : c.end_name # "none"}
  IN  [multi_line_command_endings |->
         [n \in {c.name : c \in named} |->
            (CHOOSE c \in named : c.name = n).end_name]]

NoHumanOut ==
  [pc |-> "prompt", buffer |-> <<>>, end_keyword |-> <<>>,
   returned |-> <<>>, raised |-> "none"]

\* command_name = action.split()[0] if action else ""
command_name(action) ==
  IF action = <<>> THEN ""
  ELSE IF split(action) = <<>> THEN "IndexError"
  ELSE split(action)[1]

InitHuman ==
  /\ human_model \in {human_init(cmds) : cmds \in CommandSets}
  /\ stdin \in {[lines |-> ls, read |-> 0] :
                  ls \in UNION {[1..n -> Lines] : n \in 0..MaxLines}}
  /\ human_out = NoHumanOut

HumanAtRest ==
  /\ human_model = human_init({})
  /\ stdin = [lines |-> <<>>, read |-> 0]
  /\ human_out = NoHumanOut

\* input(): the next line of stdin
AtEOF == stdin.read >= Len(stdin.lines)

NextLine == stdin.lines[stdin.read + 1]

\* query up to its first loop: the first line read, the branch chosen
HumanQuery ==
  /\ human_out.pc = "prompt"
  /\ IF AtEOF
     THEN /\ human_out' = [human_out EXCEPT !.pc = "raised",
                                            !.raised = "EOFError"]
          /\ UNCHANGED stdin
     ELSE /\ stdin' = [stdin EXCEPT !.read = @ + 1]
          /\ LET action == NextLine
                 name == command_name(action)
                 endings == human_model.multi_line_command_endings
             IN  human_out' =
                   IF action # <<>> /\ name = "IndexError"
                   THEN [human_out EXCEPT !.pc = "raised",
                                          !.raised = "IndexError"]
                   ELSE IF name \in DOMAIN endings
                   THEN [human_out EXCEPT !.pc = "end_name",
                                          !.buffer = <<action>>,
                                          !.end_keyword = <<endings[name]>>]
                   ELSE IF strip(action) = <<"start_multiline_command">>
                   THEN [human_out EXCEPT !.pc = "multiline",
                                          !.buffer = <<>>]
                   ELSE [human_out EXCEPT !.pc = "returned",
                                          !.returned = action]
  /\ UNCHANGED human_model

\* one turn of either loop: a line read, kept or not, the loop left or not
HumanReadLine ==
  /\ human_out.pc \in {"end_name", "multiline"}
  /\ IF AtEOF
     THEN /\ human_out' = [human_out EXCEPT !.pc = "raised",
                                            !.raised = "EOFError"]
          /\ UNCHANGED stdin
     ELSE /\ stdin' = [stdin EXCEPT !.read = @ + 1]
          /\ LET action == NextLine
             IN  human_out' =
                   IF human_out.pc = "end_name"
                   THEN LET buffer == Append(human_out.buffer, action)
                        IN  IF rstrip(action) = human_out.end_keyword
                            THEN [human_out EXCEPT
                                    !.pc = "returned", !.buffer = buffer,
                                    !.returned = join(buffer)]
                            ELSE [human_out EXCEPT !.buffer = buffer]
                   ELSE IF rstrip(action) = <<"end_multiline_command">>
                        THEN [human_out EXCEPT
                                !.pc = "returned",
                                !.returned = join(human_out.buffer)]
                        ELSE [human_out EXCEPT
                                !.buffer = Append(@, action)]
  /\ UNCHANGED human_model

(***************************************************************************)
(* anthropic_history_to_messages                                           *)
(*                                                                         *)
(* The history is a list of dictionaries: the list holds addresses and the *)
(* heap holds the dictionary at each address, so that a dictionary shared  *)
(* by the history and the result is one that both see change.  A content   *)
(* is a sequence of pieces, as a line of the operator is.                  *)
(***************************************************************************)
MaxHistory == 3

Roles == {"system", "user", "assistant"}

Contents == { <<>>, <<"a">>, <<"b">> }

NoOutput == <<"(No output)">>

\* the models the function is called with: the class and api_model
MessageModels ==
  { [bedrock |-> FALSE, api_model |-> "claude-2.0"],
    [bedrock |-> FALSE, api_model |-> "claude-3-opus-20240229"],
    [bedrock |-> TRUE, api_model |-> "anthropic.claude-v2"] }

\* the test of the first branch: the older models
older(model) ==
  \/ model.api_model \in {"claude-instant", "claude-2.0"}
  \/ /\ model.bedrock
     /\ model.api_model \in {"anthropic.claude-instant-v1",
                             "anthropic.claude-v2"}

\* content.strip() == ""
blank(content) == \A j \in 1..Len(content) : content[j] \in {" ", "\n"}

\* [entry for entry in hist if entry["role"] != "system"]
without_system(hist, hp) ==
  SelectSeq(hist, LAMBDA a : hp[a].role # "system")

\* the prompt of the older models
older_prompt(hist, hp) ==
  LET F[i \in 0..Len(hist)] ==
        IF i = 0 THEN <<"\n\n">>
        ELSE LET entry == hp[hist[i]]
             IN  IF entry.role \in {"user", "system"}
                 THEN F[i - 1] \o <<"HUMAN_PROMPT", " ">> \o entry.content
                        \o <<"\n\n">>
                 ELSE F[i - 1] \o <<"AI_PROMPT", " ">> \o entry.content
                        \o <<"\n\n">>
  IN  F[Len(hist)] \o <<"AI_PROMPT">>

\* messages that are the dictionaries of the history themselves
copy_messages_mut_alias(hist, hp) ==
  [heap |-> hp, messages |-> without_system(hist, hp)]

\* messages = [{k: v ... if k in ["role", "content"]} for entry in history
\* if entry["role"] != "system"]: one new dictionary for each entry kept
copy_messages(hist, hp) ==
  LET kept == without_system(hist, hp)
      n == Len(hist)
      k == Len(kept)
  IN  [heap |-> [a \in 1..(n + k) |->
                   IF a <= n THEN hp[a]
                   ELSE [role |-> hp[kept[a - n]].role,
                         content |-> hp[kept[a - n]].content]],
       messages |-> [j \in 1..k |-> n + j]]

reversed(s) == [i \in 1..Len(s) |-> s[Len(s) + 1 - i]]

\* the loop over reversed(messages): a message of the role seen last has
\* its content put before that of compiled_messages[-1]
compile_messages(msgs, hp) ==
  LET k == Len(msgs)
      F[i \in 0..k] ==
        IF i = 0
        THEN [heap |-> hp, compiled_messages |-> <<>>, last_role |-> "None"]
        ELSE LET s == F[i - 1]
                 a == msgs[k + 1 - i]
                 message == s.heap[a]
                 last == s.compiled_messages[Len(s.compiled_messages)]
             IN  IF s.last_role = message.role
                 THEN [s EXCEPT !.heap[last].content =
                                  message.content \o <<"\n">> \o @,
                                !.last_role = message.role]
                 ELSE [s EXCEPT !.compiled_messages = Append(@, a),
                                !.last_role = message.role]
  IN  [heap |-> F[k].heap,
       compiled_messages |-> reversed(F[k].compiled_messages)]

\* the last loop: a blank content becomes "(No output)"
no_output(compiled, hp) ==
  [a \in DOMAIN hp |->
     IF (\E i \in 1..Len(compiled) : compiled[i] = a) /\ blank(hp[a].content)
     THEN [hp[a] EXCEPT !.content = NoOutput]
     ELSE hp[a]]

\* anthropic_history_to_messages: what it returns and the heap it leaves
anthropic_history_to_messages(model, hist, hp, is_demonstration) ==
  IF older(model)
  THEN [kind |-> "prompt", heap |-> hp,
        value |-> older_prompt(IF is_demonstration
                               THEN without_system(hist, hp) ELSE hist, hp)]
  ELSE IF is_demonstration
  THEN [kind |-> "text", heap |-> hp,
        value |-> join([i \in 1..Len(without_system(hist, hp)) |->
                          hp[without_system(hist, hp)[i]].content])]
  ELSE LET copied == copy_messages(hist, hp)
           compiled == compile_messages(copied.messages, copied.heap)
       IN  [kind |-> "list",
            heap |-> no_output(compiled.compiled_messages, compiled.heap),
            value |-> compiled.compiled_messages]

\* the histories: each entry has a role, a content and one more key
Histories ==
  UNION {[1..n -> [role : Roles, content : Contents, agent : {"primary"}]] :
           n \in 0..MaxHistory}

NoMessages ==
  [pc |-> "args", kind |-> "none", value |-> <<>>, before |-> <<>>]

\* AnthropicModel.MODELS and BedrockModel.MODELS: the ids of the tables
AnthropicIds ==
  {"claude-instant", "claude-2.0", "claude-2.1", "claude-3-opus-20240229",
   "claude-3-sonnet-20240229", "claude-3-haiku-20240307"}

BedrockIds ==
  {"anthropic.claude-instant-v1", "anthropic.claude-v2",
   "anthropic.claude-v2:1", "anthropic.claude-3-opus-20240229-v1:0",
   "anthropic.claude-3-sonnet-20240229-v1:0",
   "anthropic.claude-3-haiku-20240307-v1:0"}

TableModels ==
  {[bedrock |-> FALSE, api_model |-> id] : id \in AnthropicIds}
  \cup {[bedrock |-> TRUE, api_model |-> id] : id \in BedrockIds}

\* the keys of model_metadata that bound the length of a generation
length_keys(model) ==
  IF model.bedrock
  THEN IF model.api_model \in {"anthropic.claude-instant-v1",
                               "anthropic.claude-v2"}
       THEN {"max_tokens_to_sample"}
       ELSE {"max_tokens"}
  ELSE IF model.api_model \in {"claude-instant", "claude-2.0", "claude-2.1"}
       THEN {}
       ELSE {"max_tokens"}

\* the test of the first branch of anthropic_query
legacy_endpoint(model) ==
  \/ model.api_model \in {"claude-instant", "claude-2.0", "claude-2.1"}
  \/ /\ model.bedrock
     /\ model.api_model \in {"anthropic.claude-instant-v1",
                             "anthropic.claude-v2"}

\* count_tokens of the client library, given what
\* anthropic_history_to_messages returned: a string is counted; what the
\* library does with a list of messages is not fixed by this repository
count_tokens(shape) ==
  IF shape = "prompt" THEN {"counted"} ELSE {"counted", "TypeError"}

\* anthropic_query up to the call of the API: the endpoint of the branch
\* taken, the shape of the prompt handed to it, the key read in
\* model_metadata and what is raised on the way.  isinstance(model,
\* Anthropic) is false for both classes, so the first branch reads
\* model_metadata["max_tokens_to_sample"].
anthropic_request(model, shape, counted) ==
  IF legacy_endpoint(model)
  THEN [pc |-> "called", model |-> model, endpoint |-> "completions",
        shape |-> shape, key |-> "max_tokens_to_sample",
        raised |-> IF counted # "counted" THEN counted
                   ELSE IF "max_tokens_to_sample" \in length_keys(model)
                   THEN "none" ELSE "KeyError"]
  ELSE [pc |-> "called", model |-> model, endpoint |-> "messages",
        shape |-> shape, key |-> "max_tokens",
        raised |-> IF "max_tokens" \in length_keys(model)
                   THEN "none" ELSE "KeyError"]

NoRequest ==
  [pc |-> "args", model |-> [bedrock |-> FALSE, api_model |-> "none"],
   endpoint |-> "none", shape |-> "none", key |-> "none", raised |-> "none"]

InitMessages ==
  /\ heap \in Histories
  /\ history = [a \in 1..Len(heap) |-> a]
  /\ messages = NoMessages
  /\ request = NoRequest

MessagesAtRest ==
  /\ heap = <<>>
  /\ history = <<>>
  /\ messages = NoMessages
  /\ request = NoRequest

\* one call of the function on the history
HistoryToMessages ==
  /\ messages.pc = "args"
  /\ \E model \in MessageModels, is_demonstration \in BOOLEAN :
       LET r == anthropic_history_to_messages(model, history, heap,
                                              is_demonstration)
       IN  /\ heap' = r.heap
           /\ messages' = [pc |-> "returned", kind |-> r.kind,
                           value |-> r.value, before |-> heap]
  /\ UNCHANGED <<history, request>>

\* one call of anthropic_query on the history, up to the call of the API
AnthropicQuery ==
  /\ request.pc = "args"
  /\ \E model \in TableModels :
       LET r == anthropic_history_to_messages(model, history, heap, FALSE)
       IN  /\ heap' = r.heap
           /\ \E counted \in count_tokens(r.kind) :
                request' = anthropic_request(model, r.kind, counted)
  /\ UNCHANGED <<history, messages>>

(***************************************************************************)
(* commands.py: ParseCommandBash, ParseCommandDetailed                     *)
(*                                                                         *)
(* A file is its name and its contents.  The name is a sequence of pieces  *)
(* ("_", a word, ".", an extension).  Of the contents the parsers see      *)
(* whether they start with "#!" and, in order, the comment blocks          *)
(* annotated with @yaml and the bash functions; every block of one file    *)
(* holds the same well-formed YAML, with the required key docstring.  A    *)
(* text (a name, a signature) is a sequence of pieces.                     *)
(***************************************************************************)
MaxItems == 3

None == <<"None">>

FileNames ==
  { <<"tool", ".", "sh">>, <<"tool", ".", "py">>, <<"tool">>,
    <<"_", "tool", ".", "sh">>, <<"_", "tool", ".", "py">>, <<"_", "tool">> }

\* the arguments mapping of a YAML block: absent, or the parameters in
\* declaration order
NoArguments == [given |-> FALSE, items |-> <<>>]

Arguments ==
  { NoArguments,
    [given |-> TRUE, items |-> <<>>],
    [given |-> TRUE, items |-> <<[param |-> "a1", required |-> FALSE]>>],
    [given |-> TRUE, items |-> <<[param |-> "a1", required |-> TRUE],
                                 [param |-> "a2", required |-> FALSE]>>] }

\* what yaml.safe_load makes of a block
DocsDicts ==
  [docstring : {"doc"}, end_name : {None, <<"end_of_edit">>},
   arguments : Arguments, signature : {None, <<"explicit">>}]

CommandFiles ==
  [name : FileNames, shebang : BOOLEAN, docs : DocsDicts,
   items : UNION {[1..n -> {"yaml", "function"}] : n \in 0..MaxItems}]

\* path.endswith(".sh")
endswith_sh(name) ==
  Len(name) >= 2 /\ name[Len(name) - 1] = "." /\ name[Len(name)] = "sh"

\* Path(path).name.startswith("_")
startswith_underscore(name) == Len(name) >= 1 /\ name[1] = "_"

\* Path(path).name.rsplit(".", 1)[0]
rsplit_dot(name) ==
  IF \E i \in 1..Len(name) : name[i] = "."
  THEN LET last == CHOOSE i \in 1..Len(name) :
                     /\ name[i] = "."
                     /\ \A j \in (i + 1)..Len(name) : name[j] # "."
       IN  SubSeq(name, 1, last - 1)
  ELSE name

\* the loop over arguments.items(): " <param>" or " [<param>]" for each
inline(signature, items) ==
  LET F[i \in 0..Len(items)] ==
        IF i = 0 THEN signature
        ELSE IF items[i].required
        THEN F[i - 1] \o <<" <", items[i].param, ">">>
        ELSE F[i - 1] \o <<" [<", items[i].param, ">]">>
  IN  F[Len(items)]

Command(name, docstring, end_name, arguments, signature) ==
  [name |-> name, docstring |-> docstring, end_name |-> end_name,
   arguments |-> arguments, signature |-> signature]

Returned(cmds) ==
  [pc |-> "returned", value |-> cmds, raised |-> "none", signature |-> None]

Raised(exc) ==
  [pc |-> "raised", value |-> <<>>, raised |-> exc, signature |-> None]

\* the signature parse_script gives its command
script_signature(name, docs) ==
  IF docs.signature = None /\ docs.arguments.given
  THEN inline(name, docs.arguments.items)
  ELSE docs.signature

\* parse_script that takes the first of several annotated blocks
parse_script_mut_first_block(file) ==
  LET matches == SelectSeq(file.items, LAMBDA it : it = "yaml")
      name == rsplit_dot(file.name)
  IN  IF Len(matches) = 0 THEN Returned(<<>>)
      ELSE Returned(<<Command(name, file.docs.docstring, file.docs.end_name,
                              file.docs.arguments,
                              script_signature(name, file.docs))>>)

\* parse_script: the command of a file that starts with "#!"
parse_script(file) ==
  LET matches == SelectSeq(file.items, LAMBDA it : it = "yaml")
      name == rsplit_dot(file.name)
  IN  IF Len(matches) = 0 THEN Returned(<<>>)
      ELSE IF Len(matches) > 1 THEN Raised("ValueError")
      ELSE Returned(<<Command(name, file.docs.docstring, file.docs.end_name,
                              file.docs.arguments,
                              script_signature(name, file.docs))>>)

\* the name of the k-th function of a file
function_name(k) == <<"f", ToString(k)>>

\* the command parse_bash_functions makes of one function: documented by
\* the comment lines gathered since the last function, or by none
function_command(name, documented, docs) ==
  IF ~documented
  THEN Command(name, "None", None, NoArguments, name)
  ELSE Command(name, docs.docstring, docs.end_name, docs.arguments,
               IF docs.signature # None THEN docs.signature
               ELSE IF docs.arguments.given
               THEN inline(name, docs.arguments.items)
               ELSE name)

\* What a file without "#!" holds, line by line: "yaml" is a run of
\* "# "-prefixed comment lines, "function" a line "name() {" with its body
\* and the line "}" that ends it, "header" a line "name() {" with a body
\* that no line "}" ends, "other" a line that is none of these (a blank
\* line, a statement).
BashItems == {"yaml", "other", "function", "header"}

BashFiles ==
  [name : {<<"tool", ".", "sh">>, <<"_", "tool", ".", "sh">>},
   shebang : {FALSE}, docs : DocsDicts,
   items : UNION {[1..n -> BashItems] : n \in 0..MaxItems}]

\* parse_bash_functions: the outer loop gathers comment lines in docs and,
\* at a line "name() {", the inner loop takes every line up to the next
\* line "}" as the body (open: the inner loop is looking for it); docs is
\* emptied only after a command has been appended.  lines[idx] past the
\* last line raises IndexError.
parse_bash_functions(file) ==
  LET F[i \in 0..Len(file.items)] ==
        IF i = 0 THEN [commands |-> <<>>, docs |-> FALSE, open |-> FALSE]
        ELSE LET s == F[i - 1]
                 it == file.items[i]
                 appended ==
                   [commands |->
                      Append(s.commands,
                             function_command(
                               function_name(Len(s.commands) + 1),
                               s.docs, file.docs)),
                    docs |-> FALSE, open |-> FALSE]
             IN  IF s.open
                 THEN IF it = "function" THEN appended ELSE s
                 ELSE IF it = "yaml" THEN [s EXCEPT !.docs = TRUE]
                 ELSE IF it = "function" THEN appended
                 ELSE IF it = "header" THEN [s EXCEPT !.open = TRUE]
                 ELSE s
      last == F[Len(file.items)]
  IN  IF last.open THEN Raised("IndexError") ELSE Returned(last.commands)

\* ParseCommandBash.parse_command_file
parse_command_file(file) ==
  IF file.shebang
  THEN LET r == parse_script(file)
       IN  IF r.pc = "raised" THEN r
           ELSE IF Len(r.value) = 0 /\ ~startswith_underscore(file.name)
           THEN Raised("ValueError")
           ELSE r
  ELSE IF ~endswith_sh(file.name) /\ ~startswith_underscore(file.name)
  THEN Raised("ValueError")
  ELSE parse_bash_functions(file)

\* ParseCommandDetailed.get_signature: cmd.arguments[-1] looks up the key
\* -1 in a mapping keyed by parameter names
get_signature(cmd) ==
  IF ~cmd.arguments.given
  THEN [signature |-> cmd.name, raised |-> "none"]
  ELSE IF cmd.end_name = None
  THEN [signature |-> inline(cmd.name, cmd.arguments.items),
        raised |-> "none"]
  ELSE [signature |-> None, raised |-> "KeyError"]

\* the commands generate_command_docs asks a signature for: those that
\* carry none, parsed or built from the configuration
UnsignedCommands ==
  { Command(<<"sub">>, "doc", e, a, None) :
      e \in {None, <<"end_of_edit">>}, a \in Arguments }

NoCommands ==
  [pc |-> "args", value |-> <<>>, raised |-> "none", signature |-> None]

InitCommands ==
  /\ cmd_file \in CommandFiles
  /\ commands = NoCommands

\* a .sh file without "#!" is handed to the parser
InitBash ==
  /\ cmd_file \in BashFiles
  /\ commands = NoCommands

CommandsAtRest ==
  /\ cmd_file = [name |-> <<"tool", ".", "sh">>, shebang |-> FALSE,
                 docs |-> [docstring |-> "doc", end_name |-> None,
                           arguments |-> NoArguments, signature |-> None],
                 items |-> <<>>]
  /\ commands = NoCommands

\* one call of parse_command_file on the file
ParseCommandFile ==
  /\ commands.pc = "args"
  /\ commands' = parse_command_file(cmd_file)
  /\ UNCHANGED cmd_file

\* one call of get_signature, on a command without a signature
GetSignature ==
  /\ commands.pc = "args"
  /\ \E cmd \in UnsignedCommands :
       commands' = [pc |-> "signature", value |-> <<cmd>>,
                    raised |-> get_signature(cmd).raised,
                    signature |-> get_signature(cmd).signature]
  /\ UNCHANGED cmd_file

(***************************************************************************)
(* Main.run: the prompt context handed to the agent                        *)
(***************************************************************************)
MaxTests == 2

\* the lists a field of the record may hold: names of tests, paths of files
NameLists == UNION {[1..n -> {"t1", "t2"}] : n \in 0..MaxTests}

\* self.env.record: the fields it carries, each with a list
Records ==
  UNION {[keys -> NameLists] :
           keys \in SUBSET {"test_patch", "FAIL_TO_PASS", "FAIL_endTO_PASS"}}

\* "\n".join([f"- {x}" for x in names])
bulleted(names) == join([i \in 1..Len(names) |-> <<"- ", names[i]>>])

\* Main.run from "test_files = []" to setup_args: the test is made on the
\* key "FAIL_endTO_PASS", the list is read under the key "FAIL_TO_PASS"
build_setup_args(rec) ==
  LET test_files == IF "test_patch" \in DOMAIN rec
                    THEN bulleted(rec["test_patch"]) ELSE <<>>
  IN  IF "FAIL_endTO_PASS" \in DOMAIN rec
      THEN IF "FAIL_TO_PASS" \in DOMAIN rec
           THEN [pc |-> "built", test_files |-> test_files,
                 tests |-> bulleted(rec["FAIL_TO_PASS"]), raised |-> "none"]
           ELSE [pc |-> "raised", test_files |-> test_files,
                 tests |-> <<>>, raised |-> "KeyError"]
      ELSE [pc |-> "built", test_files |-> test_files, tests |-> <<>>,
            raised |-> "none"]

NoSetupArgs ==
  [pc |-> "record", test_files |-> <<>>, tests |-> <<>>, raised |-> "none"]

InitSetup ==
  /\ record \in Records
  /\ setup_args = NoSetupArgs

SetupAtRest ==
  /\ record = <<>>
  /\ setup_args = NoSetupArgs

\* Main.run builds setup_args for the instance the environment holds
BuildSetupArgs ==
  /\ setup_args.pc = "record"
  /\ setup_args' = build_setup_args(record)
  /\ UNCHANGED record

(***************************************************************************)
(* Two orchestrators started with the same arguments on one trajectory     *)
(* directory.  Each runs Main.main; a step of one is _save_arguments,      *)
(* should_skip, or agent.run with _save_predictions, and the steps of the  *)
(* two interleave.                                                         *)
(***************************************************************************)
Orchestrators == {1, 2}

\* args.yaml as _save_arguments writes it
ArgsYaml == [exists |-> TRUE, doc |-> "args", exit_status |-> "none"]

\* the arguments both were started with
RaceArgs ==
  [instance_filter |-> Star(Dot), skip_existing |-> TRUE,
   raise_exceptions |-> FALSE]

NoOrch ==
  [pc |-> "main", index |-> 0, passed |-> <<>>, returned |-> <<>>,
   warned |-> FALSE, batches |-> 0]

InitRace ==
  /\ orch = [p \in Orchestrators |-> NoOrch]
  /\ shared_dir \in
       [args_yaml : {NoFile},
        traj : [InstanceIds -> {NoFile, Traj("submitted"), Traj("no_key")}]]
  /\ shared_preds = <<>>

RaceAtRest ==
  /\ orch = [p \in Orchestrators |-> NoOrch]
  /\ shared_dir = [args_yaml |-> NoFile,
                   traj |-> [id \in InstanceIds |-> NoFile]]
  /\ shared_preds = <<>>

\* Main._save_arguments: an existing args.yaml is compared, then written
RaceSaveArguments(p) ==
  /\ orch[p].pc = "main"
  /\ orch' = [orch EXCEPT ![p].pc = "loop",
                          ![p].warned = /\ shared_dir.args_yaml.exists
                                        /\ shared_dir.args_yaml # ArgsYaml]
  /\ shared_dir' = [shared_dir EXCEPT !.args_yaml = ArgsYaml]
  /\ UNCHANGED shared_preds

\* should_skip that holds the instance against the other orchestrator: it
\* skips what the other has passed
RaceShouldSkip_mut_locked(p) ==
  /\ orch[p].pc = "loop"
  /\ orch[p].index < Len(data)
  /\ LET instance_id == data[orch[p].index + 1]
         r == should_skip(RaceArgs, shared_dir.traj, instance_id)
         taken == \E q \in Orchestrators \ {p} :
                    \E k \in DOMAIN orch[q].passed :
                      orch[q].passed[k] = instance_id
     IN  /\ shared_dir' = [shared_dir EXCEPT !.traj = r.traj_dir]
         /\ orch' = IF r.exc # "none" \/ r.ret \/ taken
                    THEN [orch EXCEPT ![p].index = @ + 1]
                    ELSE [orch EXCEPT ![p].pc = "task",
                                      ![p].passed = Append(@, instance_id)]
  /\ UNCHANGED shared_preds

\* Main.run up to the skip decision: should_skip reads the directory as it
\* is now; what it raises makes the instance a failed one and the loop of
\* Main.main goes on
RaceShouldSkip(p) ==
  /\ orch[p].pc = "loop"
  /\ orch[p].index < Len(data)
  /\ LET instance_id == data[orch[p].index + 1]
         r == should_skip(RaceArgs, shared_dir.traj, instance_id)
     IN  /\ shared_dir' = [shared_dir EXCEPT !.traj = r.traj_dir]
         /\ orch' = IF r.exc # "none" \/ r.ret
                    THEN [orch EXCEPT ![p].index = @ + 1]
                    ELSE [orch EXCEPT ![p].pc = "task",
                                      ![p].passed = Append(@, instance_id)]
  /\ UNCHANGED shared_preds

\* Main.run after the skip decision: the agent leaves its trajectory file,
\* _save_predictions appends its line
RaceRunTask(p) ==
  /\ orch[p].pc = "task"
  /\ \E r \in TaskResults :
       LET instance_id == data[orch[p].index + 1]
           i == [exit_status |-> r.exit_status, submission |-> r.submission]
       IN  /\ \E f \in AgentFiles(r, shared_dir.traj[instance_id]) :
                shared_dir' = [shared_dir EXCEPT !.traj[instance_id] = f]
           /\ shared_preds' = IF r.kind = "returned"
                              THEN save_predictions(shared_preds,
                                                    instance_id, i)
                              ELSE shared_preds
           /\ orch' = IF r.kind = "returned"
                      THEN [orch EXCEPT ![p].pc = "loop",
                                        ![p].index = @ + 1,
                                        ![p].returned =
                                          Append(@, instance_id)]
                      ELSE IF r.kind = "KeyboardInterrupt"
                      THEN [orch EXCEPT ![p].pc = "raised"]
                      ELSE [orch EXCEPT ![p].pc = "loop",
                                        ![p].index = @ + 1]

\* Main.main after the loop
RaceMainEnd(p) ==
  /\ orch[p].pc = "loop"
  /\ orch[p].index = Len(data)
  /\ orch' = [orch EXCEPT ![p].pc = "done"]
  /\ UNCHANGED <<shared_dir, shared_preds>>

\* One orchestrator that is started again and again on the directory: the
\* batches it may run after the first
MaxBatches == 1

\* the orchestrator that runs alone
SingleOrchestrator == {CHOOSE p \in Orchestrators : TRUE}

\* run.py is started again with the same arguments after Main.main has
\* ended or an exception has left it: a new Main, a new loop from index 0,
\* on the directory and the all_preds.jsonl the earlier batches left
RaceStartAgain(p) ==
  /\ orch[p].pc \in {"done", "raised"}
  /\ orch[p].batches < MaxBatches
  /\ orch' = [orch EXCEPT ![p] = [NoOrch EXCEPT !.batches = orch[p].batches + 1]]
  /\ UNCHANGED <<shared_dir, shared_preds>>

(***************************************************************************)
(* Repository references: is_github_repo_url, parse_gh_repo_url            *)
(*                                                                         *)
(* A reference is a sequence of pieces: a scheme or SSH prefix, the host,  *)
(* "/" and words.  Neighbouring words make up one segment.                 *)
(***************************************************************************)
MaxUrlLen == 6

Prefixes == {<<>>, <<"https://">>, <<"git@">>}

Hosts == {<<>>, <<"github.com">>, <<"example.com">>}

Words == {"a", "b"}

\* what follows the host: "/" and words, in any order
Paths == UNION {[1..n -> Words \cup {"/"}] : n \in 0..MaxUrlLen}

RepoUrls == {p \o h \o q : p \in Prefixes, h \in Hosts, q \in Paths}

\* the segment that starts at position i: the pieces up to the next "/"
segment(url, i) ==
  LET stops == {k \in i..Len(url) : url[k] = "/"}
      stop == IF stops = {} THEN Len(url) + 1
              ELSE CHOOSE k \in stops : \A m \in stops : k <= m
  IN  SubSeq(url, i, stop - 1)

NoMatch == [found |-> FALSE, owner |-> <<>>, repo |-> <<>>]

\* faulty variant: the last two segments are taken for owner and repo
match_repo_url_mut_last_segments(url) ==
  LET at == {i \in 1..Len(url) : url[i] = "github.com"} IN
  IF at = {} THEN NoMatch
  ELSE LET i == CHOOSE k \in at : \A m \in at : k <= m
           slashes == {k \in (i + 1)..Len(url) :
                         url[k] = "/" /\ segment(url, k + 1) # <<>>}
       IN  IF Cardinality(slashes) < 2 THEN NoMatch
           ELSE LET r == CHOOSE k \in slashes : \A m \in slashes : m <= k
                    o == CHOOSE k \in slashes \ {r} :
                           \A m \in slashes \ {r} : m <= k
                IN  [found |-> TRUE, owner |-> segment(url, o + 1),
                     repo |-> segment(url, r + 1)]

\* the match both functions make: the host github.com, "/", a non-empty
\* owner segment, "/", a non-empty repo segment; what follows is ignored
match_repo_url(url) ==
  LET at == {i \in 1..Len(url) : url[i] = "github.com"} IN
  IF at = {} THEN NoMatch
  ELSE LET i == CHOOSE k \in at : \A m \in at : k <= m
           owner == segment(url, i + 2)
           j == i + 2 + Len(owner)
           repo == segment(url, j + 1)
       IN  IF /\ i + 1 <= Len(url) /\ url[i + 1] = "/"
              /\ owner # <<>>
              /\ j <= Len(url) /\ url[j] = "/"
              /\ repo # <<>>
           THEN [found |-> TRUE, owner |-> owner, repo |-> repo]
           ELSE NoMatch

\* is_github_repo_url: the boolean match
is_github_repo_url(url) == match_repo_url(url).found

\* parse_gh_repo_url: (owner, repo), or the invalid-URL condition
parse_gh_repo_url(url) ==
  LET m == match_repo_url(url) IN
  IF m.found
  THEN [pc |-> "parsed", ret |-> TRUE, value |-> <<m.owner, m.repo>>,
        raised |-> "none"]
  ELSE [pc |-> "parsed", ret |-> FALSE, value |-> <<>>,
        raised |-> "InvalidGithubURL"]

NoUrlOut == [pc |-> "args", ret |-> FALSE, value |-> <<>>, raised |-> "none"]

InitUrls ==
  /\ gh_url \in RepoUrls
  /\ gh_out = NoUrlOut

UrlsAtRest ==
  /\ gh_url = <<>>
  /\ gh_out = NoUrlOut

\* one call of is_github_repo_url on the string
IsGithubRepoUrl ==
  /\ gh_out.pc = "args"
  /\ gh_out' = [pc |-> "recognized", ret |-> is_github_repo_url(gh_url),
                value |-> <<>>, raised |-> "none"]
  /\ UNCHANGED gh_url

\* one call of parse_gh_repo_url on the string
ParseGhRepoUrl ==
  /\ gh_out.pc = "args"
  /\ gh_out' = parse_gh_repo_url(gh_url)
  /\ UNCHANGED gh_url

ToolsAtRest ==
  /\ UrlsAtRest
  /\ ReplayAtRest
  /\ InitStub
  /\ HumanAtRest
  /\ MessagesAtRest
  /\ CommandsAtRest
  /\ SetupAtRest
  /\ RaceAtRest

(***************************************************************************)
(* Specifications                                                          *)
(***************************************************************************)
\* the orchestrator at rest, for the specification of the model layer
MainAtRest ==
  /\ script_args = [instance_filter |-> Star(Dot), skip_existing |-> TRUE,
                    raise_exceptions |-> FALSE]
  /\ traj_dir = [i \in InstanceIds |-> NoFile]
  /\ preds = <<>>
  /\ mpc = "main"
  /\ index = 0
  /\ hook_log = <<>>
  /\ env_log = <<>>
  /\ skip_ret = "none"
  /\ fs_ops = <<>>
  /\ info = NoRunInfo
  /\ batch = NoBatch
  /\ events = <<>>

\* the hooks at rest, for the specification of the model layer
HooksAtRest ==
  /\ actions = [open_pr |-> FALSE, apply_patch_locally |-> FALSE,
                skip_if_commits_reference_issue |-> TRUE]
  /\ patches = [id \in InstanceIds |-> "none"]
  /\ hpc = "main"
  /\ hook_in = NoHookIn
  /\ hook_out = NoHookOut

\* The hooks as Main registers them, for the specification of the
\* orchestrator: pull requests are asked for, so that both hooks act.
InitHooksMain ==
  /\ actions = [open_pr |-> TRUE, apply_patch_locally |-> FALSE,
                skip_if_commits_reference_issue |-> TRUE]
  /\ patches = [id \in InstanceIds |-> "none"]
  /\ hpc = "main"
  /\ hook_in = NoHookIn
  /\ hook_out = NoHookOut

\* one model, not queried, for the specification of the orchestrator
ModelAtRest ==
  /\ InitModel
  /\ backend = "openai"
  /\ args = [total_cost_limit |-> 0, per_instance_cost_limit |-> 0]

\* the model layer
Init ==
  InitModel /\ MainAtRest /\ HooksAtRest /\ NamesAtRest /\ ToolsAtRest

Next ==
  \/ UpdateStats /\ UNCHANGED <<mainVars, hookVars, nameVars, toolVars>>
  \/ ResetStats /\ UNCHANGED <<mainVars, hookVars, nameVars, toolVars>>
  \/ ResetStatsOther /\ UNCHANGED <<mainVars, hookVars, nameVars, toolVars>>
  \/ QueryStart /\ UNCHANGED <<mainVars, hookVars, nameVars, toolVars>>
  \/ OpenAIAttempt /\ UNCHANGED <<mainVars, hookVars, nameVars, toolVars>>
  \/ AnthropicAttempt /\ UNCHANGED <<mainVars, hookVars, nameVars, toolVars>>
  \/ BedrockAttempt /\ UNCHANGED <<mainVars, hookVars, nameVars, toolVars>>
  \/ OllamaAttempt /\ UNCHANGED <<mainVars, hookVars, nameVars, toolVars>>
  \/ TogetherAttempt /\ UNCHANGED <<mainVars, hookVars, nameVars, toolVars>>

Spec == Init /\ [][Next]_vars

\* the orchestrator
InitMainSpec ==
  ModelAtRest /\ InitMain /\ InitHooksMain /\ NamesAtRest /\ ToolsAtRest

NextMainSpec ==
  \/ MainStart /\ UNCHANGED <<modelVars, hookVars, nameVars, toolVars>>
  \/ RunStart /\ UNCHANGED <<modelVars, hookVars, nameVars, toolVars>>
  \/ RunTask /\ UNCHANGED <<modelVars, hookVars, nameVars, toolVars>>
  \/ RunCompleted /\ UNCHANGED <<modelVars, nameVars, toolVars>>
  \/ MainEnd /\ UNCHANGED <<modelVars, hookVars, nameVars, toolVars>>

SpecMain == InitMainSpec /\ [][NextMainSpec]_vars

\* The orchestrator, which goes on while it has a statement to execute, on
\* a trajectory directory where each instance has no file, a file cut
\* short, or a submitted trajectory: should_skip declines, raises, skips.
InitMainFair ==
  /\ InitMainSpec
  /\ \A id \in InstanceIds :
       traj_dir[id] \in {NoFile, Partial, Traj("submitted")}

SpecMainFair ==
  InitMainFair /\ [][NextMainSpec]_vars /\ WF_vars(NextMainSpec)

\* the completion callbacks of the two hooks, on their own
InitHooksSpec ==
  ModelAtRest /\ MainAtRest /\ InitHooks /\ NamesAtRest /\ ToolsAtRest

NextHooksSpec ==
  \/ PatchHookCompleted /\ UNCHANGED <<modelVars, mainVars, nameVars, toolVars>>
  \/ OpenPRHookCompleted /\ UNCHANGED <<modelVars, mainVars, nameVars, toolVars>>

SpecHooks == InitHooksSpec /\ [][NextHooksSpec]_vars

\* the construction of a model
InitNamesSpec ==
  ModelAtRest /\ MainAtRest /\ HooksAtRest /\ InitNames /\ ToolsAtRest

NextNamesSpec ==
  \/ GetModel /\ UNCHANGED <<modelVars, mainVars, hookVars, toolVars>>

SpecNames == InitNamesSpec /\ [][NextNamesSpec]_vars

coreVars == <<modelVars, mainVars, hookVars, nameVars>>

CoreAtRest == ModelAtRest /\ MainAtRest /\ HooksAtRest /\ NamesAtRest

\* the two scripted models: the replay model and the test stub
InitScriptedSpec ==
  /\ CoreAtRest /\ UrlsAtRest
  /\ InitReplay /\ InitStub
  /\ HumanAtRest /\ MessagesAtRest /\ CommandsAtRest /\ SetupAtRest
  /\ RaceAtRest

NextScriptedSpec ==
  \/ ReplayQuery /\ UNCHANGED <<urlVars, coreVars, stubVars, humanVars, msgVars,
                                cmdVars, setupVars, raceVars>>
  \/ StubQuery /\ UNCHANGED <<urlVars, coreVars, replayVars, humanVars, msgVars,
                              cmdVars, setupVars, raceVars>>

SpecScripted == InitScriptedSpec /\ [][NextScriptedSpec]_vars

\* the human model at the terminal
InitHumanSpec ==
  /\ CoreAtRest /\ UrlsAtRest
  /\ ReplayAtRest /\ InitStub
  /\ InitHuman
  /\ MessagesAtRest /\ CommandsAtRest /\ SetupAtRest /\ RaceAtRest

NextHumanSpec ==
  \/ HumanQuery /\ UNCHANGED <<urlVars, coreVars, replayVars, stubVars, msgVars,
                               cmdVars, setupVars, raceVars>>
  \/ HumanReadLine /\ UNCHANGED <<urlVars, coreVars, replayVars, stubVars, msgVars,
                                  cmdVars, setupVars, raceVars>>

SpecHuman == InitHumanSpec /\ [][NextHumanSpec]_vars

\* the histories handed to anthropic_history_to_messages
InitMessagesSpec ==
  /\ CoreAtRest /\ UrlsAtRest
  /\ ReplayAtRest /\ InitStub /\ HumanAtRest
  /\ InitMessages
  /\ CommandsAtRest /\ SetupAtRest /\ RaceAtRest

NextMessagesSpec ==
  \/ HistoryToMessages /\ UNCHANGED <<urlVars, coreVars, replayVars, stubVars,
                                      humanVars, cmdVars, setupVars,
                                      raceVars>>

SpecMessages == InitMessagesSpec /\ [][NextMessagesSpec]_vars

\* the tool-definition files and the commands made of them
InitCommandsSpec ==
  /\ CoreAtRest /\ UrlsAtRest
  /\ ReplayAtRest /\ InitStub /\ HumanAtRest /\ MessagesAtRest
  /\ InitCommands
  /\ SetupAtRest /\ RaceAtRest

NextCommandsSpec ==
  \/ ParseCommandFile /\ UNCHANGED <<urlVars, coreVars, replayVars, stubVars,
                                     humanVars, msgVars, setupVars,
                                     raceVars>>
  \/ GetSignature /\ UNCHANGED <<urlVars, coreVars, replayVars, stubVars, humanVars,
                                 msgVars, setupVars, raceVars>>

SpecCommands == InitCommandsSpec /\ [][NextCommandsSpec]_vars

\* the records of the instances and the prompt context built from them
InitSetupSpec ==
  /\ CoreAtRest /\ UrlsAtRest
  /\ ReplayAtRest /\ InitStub /\ HumanAtRest /\ MessagesAtRest
  /\ CommandsAtRest
  /\ InitSetup
  /\ RaceAtRest

NextSetupSpec ==
  \/ BuildSetupArgs /\ UNCHANGED <<urlVars, coreVars, replayVars, stubVars,
                                   humanVars, msgVars, cmdVars, raceVars>>

SpecSetup == InitSetupSpec /\ [][NextSetupSpec]_vars

\* two orchestrators on one trajectory directory
InitRaceSpec ==
  /\ CoreAtRest /\ UrlsAtRest
  /\ ReplayAtRest /\ InitStub /\ HumanAtRest /\ MessagesAtRest
  /\ CommandsAtRest /\ SetupAtRest
  /\ InitRace

NextRaceSpec ==
  \/ \E p \in Orchestrators :
       RaceSaveArguments(p) /\ UNCHANGED <<urlVars, coreVars, replayVars, stubVars,
                                           humanVars, msgVars, cmdVars,
                                           setupVars>>
  \/ \E p \in Orchestrators :
       RaceShouldSkip(p) /\ UNCHANGED <<urlVars, coreVars, replayVars, stubVars,
                                        humanVars, msgVars, cmdVars,
                                        setupVars>>
  \/ \E p \in Orchestrators :
       RaceRunTask(p) /\ UNCHANGED <<urlVars, coreVars, replayVars, stubVars,
                                     humanVars, msgVars, cmdVars, setupVars>>
  \/ \E p \in Orchestrators :
       RaceMainEnd(p) /\ UNCHANGED <<urlVars, coreVars, replayVars, stubVars,
                                     humanVars, msgVars, cmdVars, setupVars>>

SpecRace == InitRaceSpec /\ [][NextRaceSpec]_vars

\* the .sh files without "#!" and the functions parsed from them
InitBashSpec ==
  /\ CoreAtRest /\ UrlsAtRest
  /\ ReplayAtRest /\ InitStub /\ HumanAtRest /\ MessagesAtRest
  /\ InitBash
  /\ SetupAtRest /\ RaceAtRest

NextBashSpec ==
  \/ ParseCommandFile /\ UNCHANGED <<urlVars, coreVars, replayVars, stubVars,
                                     humanVars, msgVars, setupVars,
                                     raceVars>>

SpecBash == InitBashSpec /\ [][NextBashSpec]_vars

\* one orchestrator, started again on the directory it has written to
NextBatchesSpec ==
  \/ \E p \in SingleOrchestrator :
       RaceSaveArguments(p) /\ UNCHANGED <<urlVars, coreVars, replayVars, stubVars,
                                           humanVars, msgVars, cmdVars,
                                           setupVars>>
  \/ \E p \in SingleOrchestrator :
       RaceShouldSkip(p) /\ UNCHANGED <<urlVars, coreVars, replayVars, stubVars,
                                        humanVars, msgVars, cmdVars,
                                        setupVars>>
  \/ \E p \in SingleOrchestrator :
       RaceRunTask(p) /\ UNCHANGED <<urlVars, coreVars, replayVars, stubVars,
                                     humanVars, msgVars, cmdVars, setupVars>>
  \/ \E p \in SingleOrchestrator :
       RaceMainEnd(p) /\ UNCHANGED <<urlVars, coreVars, replayVars, stubVars,
                                     humanVars, msgVars, cmdVars, setupVars>>
  \/ \E p \in SingleOrchestrator :
       RaceStartAgain(p) /\ UNCHANGED <<urlVars, coreVars, replayVars, stubVars,
                                        humanVars, msgVars, cmdVars,
                                        setupVars>>

SpecBatches == InitRaceSpec /\ [][NextBatchesSpec]_vars

\* the histories and the requests anthropic_query makes of them
NextEndpointsSpec ==
  \/ AnthropicQuery /\ UNCHANGED <<urlVars, coreVars, replayVars, stubVars,
                                   humanVars, cmdVars, setupVars, raceVars>>

SpecEndpoints == InitMessagesSpec /\ [][NextEndpointsSpec]_vars

\* the strings handed to the repository-reference functions
InitUrlsSpec ==
  /\ CoreAtRest
  /\ ReplayAtRest /\ InitStub /\ HumanAtRest /\ MessagesAtRest
  /\ CommandsAtRest /\ SetupAtRest /\ RaceAtRest
  /\ InitUrls

NextUrlsSpec ==
  \/ IsGithubRepoUrl /\ UNCHANGED <<coreVars, replayVars, stubVars,
                                    humanVars, msgVars, cmdVars, setupVars,
                                    raceVars>>
  \/ ParseGhRepoUrl /\ UNCHANGED <<coreVars, replayVars, stubVars,
                                   humanVars, msgVars, cmdVars, setupVars,
                                   raceVars>>

SpecUrls == InitUrlsSpec /\ [][NextUrlsSpec]_vars

(***************************************************************************)
(* Properties of the cost statistics                                       *)
(***************************************************************************)
RECURSIVE SumInput(_)
SumInput(cs) == IF cs = <<>> THEN 0 ELSE Head(cs)[1] + SumInput(Tail(cs))

RECURSIVE SumOutput(_)
SumOutput(cs) == IF cs = <<>> THEN 0 ELSE Head(cs)[2] + SumOutput(Tail(cs))

\* the sum of input_tokens * cost_per_input_token
\*            + output_tokens * cost_per_output_token over the calls
RECURSIVE SumCost(_, _)
SumCost(cs, md) ==
  IF cs = <<>> THEN 0
  ELSE Head(cs)[1] * md.cost_per_input_token
       + Head(cs)[2] * md.cost_per_output_token
       + SumCost(Tail(cs), md)

\* C1: after the k-th update_stats since construction or the last reset,
\* api_calls has grown by k, tokens_sent and tokens_received by the sums of
\* the inputs and outputs of those k calls, and instance_cost and total_cost
\* both by the sum of the k charges (prices fixed), whether or not a call
\* raised; on a model that started from zero statistics api_calls = k.
C1_StatsAreSums ==
  /\ stats.api_calls = base.api_calls + Len(calls)
  /\ stats.tokens_sent = base.tokens_sent + SumInput(calls)
  /\ stats.tokens_received = base.tokens_received + SumOutput(calls)
  /\ stats.instance_cost = base.instance_cost + SumCost(calls, MODELS(backend))
  /\ stats.total_cost = base.total_cost + SumCost(calls, MODELS(backend))
  /\ (base.api_calls = 0 => stats.api_calls = Len(calls))

\* two different calls with a positive charge have been accumulated
C1_Witness ==
  /\ Len(calls) >= 2
  /\ calls[1] # calls[2]
  /\ calls[1][2] > 0
  /\ calls[2][1] > 0
  /\ stats.instance_cost > 0

\* after the charge, a positive limit has been reached or exceeded
LimitReached ==
  \/ args.total_cost_limit > 0 /\ stats.total_cost >= args.total_cost_limit
  \/ args.per_instance_cost_limit > 0
     /\ stats.instance_cost >= args.per_instance_cost_limit

\* update_stats has just run: called directly, or by an attempt whose
\* provider call succeeded
UpdateStatsRan ==
  \/ op = "update_stats"
  \/ op = "attempt" /\ resp \in {"ok", "ok_no_prompt_eval_count"}

UpdateStatsRaised ==
  IF op = "update_stats" THEN outcome = "CostLimitExceededError"
  ELSE raised = "CostLimitExceededError"

C2_RaisesIffLimitReached ==
  /\ UpdateStatsRan => (UpdateStatsRaised <=> LimitReached)
  /\ (UpdateStatsRan /\ args.total_cost_limit = 0
      /\ args.per_instance_cost_limit = 0) => ~UpdateStatsRaised

C2_NoNormalReturnPastLimit ==
  (/\ args.per_instance_cost_limit > 0
   /\ stats.instance_cost >= args.per_instance_cost_limit
   /\ UpdateStatsRan')
  => UpdateStatsRaised'

\* C2: update_stats raises cost-limit-exceeded if and only if, after the
\* charge, a positive total limit or a positive per-instance limit has been
\* reached; so never with both limits 0, and once instance_cost has reached
\* a positive per-instance limit every later update_stats raises until a reset.
C2_CostLimit ==
  []C2_RaisesIffLimitReached /\ [][C2_NoNormalReturnPastLimit]_vars

\* an update_stats raised with instance_cost exactly at the per-instance
\* limit, after an earlier one had already raised
C2_Witness ==
  /\ op = "update_stats"
  /\ outcome = "CostLimitExceededError"
  /\ args.total_cost_limit = 0
  /\ args.per_instance_cost_limit > 0
  /\ stats.instance_cost = args.per_instance_cost_limit
  /\ Len(calls) >= 2

\* C3: reset_stats() zeroes instance_cost, tokens_sent, tokens_received and
\* api_calls and keeps total_cost; reset_stats(other) leaves the statistics
\* equal to the snapshot in all five fields.
C3_Reset ==
  [][/\ op' = "reset_stats" =>
          /\ stats'.instance_cost = 0
          /\ stats'.tokens_sent = 0
          /\ stats'.tokens_received = 0
          /\ stats'.api_calls = 0
          /\ stats'.total_cost = stats.total_cost
     /\ op' = "reset_stats_other" =>
          /\ stats'.total_cost = other'.total_cost
          /\ stats'.instance_cost = other'.instance_cost
          /\ stats'.tokens_sent = other'.tokens_sent
          /\ stats'.tokens_received = other'.tokens_received
          /\ stats'.api_calls = other'.api_calls]_vars

\* a no-argument reset of statistics that carried a cost, on a model that
\* had a snapshot installed before
C3_Witness ==
  /\ op = "reset_stats"
  /\ stats.total_cost > 0
  /\ stats.instance_cost = 0
  /\ other \in Snapshots

\* C4: no step other than a reset lowers total_cost, instance_cost,
\* tokens_sent, tokens_received or api_calls, under any sequence of queries
\* and update_stats calls; a no-argument reset never lowers total_cost.
C4_Monotonic ==
  [][/\ op' \notin {"reset_stats", "reset_stats_other"} =>
          /\ stats'.total_cost >= stats.total_cost
          /\ stats'.instance_cost >= stats.instance_cost
          /\ stats'.tokens_sent >= stats.tokens_sent
          /\ stats'.tokens_received >= stats.tokens_received
          /\ stats'.api_calls >= stats.api_calls
     /\ op' = "reset_stats" => stats'.total_cost >= stats.total_cost]_vars

\* a query raised the counters a second time since the last reset
C4_Witness ==
  /\ op = "attempt"
  /\ Len(calls) >= 2
  /\ stats.instance_cost > base.instance_cost
  /\ stats.api_calls = base.api_calls + 2

(***************************************************************************)
(* Properties of the retry wrapper                                         *)
(***************************************************************************)
C5_AttemptStep ==
  op' = "attempt" =>
    /\ attempt' = attempt + 1
    /\ raised' = "none" => (qstate' = "idle" /\ outcome' = "returned")
    /\ (/\ raised' \notin {"none", "CostLimitExceededError", "RuntimeError"}
        /\ attempt' < 3) => qstate' = "running"
    /\ (raised' # "none" /\ attempt' = 3) =>
         (qstate' = "idle" /\ outcome' = raised')

\* C5: one invocation of a network backend's query makes at most 3 attempts:
\* a failure other than cost-limit-exceeded or RuntimeError on attempt 1 or 2
\* leads to another attempt, a success ends the invocation, and a third
\* failed attempt hands its failure to the caller.
C5_AtMostThreeAttempts ==
  [](attempt <= 3 /\ (qstate = "running" => attempt < 3))
  /\ [][C5_AttemptStep]_vars

\* a third attempt failed and its failure reached the caller
C5_Witness ==
  /\ op = "attempt"
  /\ attempt = 3
  /\ qstate = "idle"
  /\ outcome = "APIError"

\* the attempt that has just run met a budget-exceeded condition
BudgetExceeded ==
  /\ op = "attempt"
  /\ \/ raised = "CostLimitExceededError"
     \/ backend = "openai" /\ resp = "BadRequestError"

\* C6: budget-exceeded conditions are retried zero times: an attempt that
\* raises cost-limit-exceeded from update_stats, or whose provider call on
\* the OpenAI backend fails as request-too-large, is the last attempt of the
\* invocation; it made one provider call, the condition reaches the caller,
\* and no provider call follows before the caller's next query.
C6_BudgetNotRetried ==
  [](BudgetExceeded =>
       /\ qstate = "idle"
       /\ outcome = raised
       /\ outcome # "none"
       /\ outcome # "returned"
       /\ provider_calls = attempt)
  /\ [][/\ BudgetExceeded' => provider_calls' = provider_calls + 1
        /\ (BudgetExceeded /\ op' # "query") =>
             (provider_calls' = provider_calls /\ attempt' = attempt)]_vars

\* the first provider call of an OpenAI query failed as request-too-large
\* and the invocation ended there
C6_Witness ==
  /\ backend = "openai"
  /\ op = "attempt"
  /\ resp = "BadRequestError"
  /\ provider_calls = 1
  /\ qstate = "idle"

\* C7: on the OpenAI backend a request-too-large failure of the provider
\* call reaches the caller as ContextWindowExceededError, a condition
\* different from CostLimitExceededError.
C7_ContextWindowExceeded ==
  (backend = "openai" /\ op = "attempt" /\ resp = "BadRequestError") =>
    (outcome = "ContextWindowExceededError"
     /\ outcome # "CostLimitExceededError")

(***************************************************************************)
(* Properties of the skip decision                                         *)
(***************************************************************************)
\* Main.run is about to take up the instance at index: the next step of the
\* orchestrator calls should_skip for it
AtSkipDecision == mpc = "run" /\ index < Len(data)

\* the instance the loop stands at (the last one once the loop is over)
current_id == data[Min(index, Len(data) - 1) + 1]

WithoutFinalStatus(file) ==
  file.doc = "info" /\ file.exit_status \in {"early_exit", "no_key", "null"}

\* C8: with skip_existing enabled and the filter matching: an existing
\* trajectory whose exit_status is early_exit or absent is deleted and
\* should_skip returns false (the instance goes on to run); one with any other
\* exit status makes it return true and stays in place; without a file it
\* returns false.
C8_SkipExisting ==
  [][(/\ AtSkipDecision
      /\ script_args.skip_existing
      /\ re_match(script_args.instance_filter, current_id))
     => LET file == traj_dir[current_id] IN
        /\ WithoutFinalStatus(file) =>
             /\ skip_ret' = "False"
             /\ traj_dir' = [traj_dir EXCEPT ![current_id] = NoFile]
             /\ mpc' = "task"
        /\ (file.doc = "info" /\ ~WithoutFinalStatus(file)) =>
             /\ skip_ret' = "True"
             /\ traj_dir' = traj_dir
             /\ mpc' = "run" /\ index' = index + 1
        /\ ~file.exists =>
             /\ skip_ret' = "False"
             /\ traj_dir' = traj_dir
             /\ mpc' = "task"]_vars

\* should_skip has deleted a trajectory without exit status and the
\* instance is about to be run again
C8_Witness ==
  /\ mpc = "task"
  /\ script_args.skip_existing
  /\ skip_ret = "False"
  /\ fs_ops = <<"exists", "read", "remove">>
  /\ traj_dir[current_id] = NoFile

Touches(ops) == \E k \in 1..Len(ops) : ops[k] \in {"read", "remove"}

\* C9: with skip_existing disabled an instance whose id matches the filter
\* is never skipped, whatever trajectory file exists, and should_skip neither
\* reads nor deletes the file.
C9_NoSkipWhenDisabled ==
  [][(/\ AtSkipDecision
      /\ ~script_args.skip_existing
      /\ re_match(script_args.instance_filter, current_id))
     => /\ skip_ret' = "False"
        /\ mpc' = "task"
        /\ index' = index
        /\ traj_dir' = traj_dir
        /\ ~Touches(fs_ops')]_vars

\* an instance with a finished trajectory goes on to run
C9_Witness ==
  /\ mpc = "task"
  /\ ~script_args.skip_existing
  /\ skip_ret = "False"
  /\ traj_dir[current_id] = Traj("submitted")

\* the pattern matches the whole of s
fullmatch(pattern, s) == Len(s) \in Ends(pattern, s, 0)

\* C10: an instance is run only if its id completely matches
\* instance_filter; an instance whose id does not is skipped whatever
\* skip_existing says, every hook's skip callback fires and its trajectory
\* file is left as it is.
C10_FilterMatchesCompletely ==
  [][AtSkipDecision =>
       /\ mpc' = "task" => fullmatch(script_args.instance_filter, current_id)
       /\ ~fullmatch(script_args.instance_filter, current_id) =>
            /\ skip_ret' = "True"
            /\ hook_log' = FireAll("on_instance_start")
                           \o FireAll("on_instance_skipped")
            /\ traj_dir' = traj_dir]_vars

(***************************************************************************)
(* Properties of the hooks' callbacks and of the batch                     *)
(***************************************************************************)
IsCallback(e) == \E h \in 1..Len(hooks) : e[1] = hooks[h]

\* the hook callbacks among es, in order
Callbacks(es) == SelectSeq(es, IsCallback)

\* the events of Main.run(index) after the instance-start callbacks
AfterStart == SubSeq(events, Len(hooks) + 1, Len(events))

Position(es, e) == CHOOSE k \in DOMAIN es : es[k] = e

Occurs(es, e) == \E k \in DOMAIN es : es[k] = e

C12_Inv ==
  /\ batch.on_start <= 1
  /\ batch.on_end <= 1
  /\ (batch.attempted # <<>> \/ events # <<>>)
       => batch.on_start = 1
  /\ batch.on_end = 1 <=> mpc = "done"
  /\ mpc = "raised" => script_args.raise_exceptions
  /\ (mpc = "end" \/ (mpc = "run" /\ index = Len(data)))
       => ENABLED MainEnd

C12_Step ==
  /\ batch'.on_start # batch.on_start
       => hook_log' = FireAll("on_start") /\ batch.attempted = <<>>
  /\ batch'.on_end # batch.on_end => hook_log' = FireAll("on_end")
  /\ batch.on_end = 1
       => batch'.attempted = batch.attempted /\ events' = events
  /\ (mpc = "end" \/ (mpc = "run" /\ index = Len(data))) => mpc' = "done"

\* C12: in every batch that raise_exceptions does not abort, each hook's
\* on_start fires exactly once, before the first instance callback, and
\* each hook's on_end fires exactly once, after the last one, also when an
\* interrupt stops the batch early.
C12_BatchCallbacks ==
  /\ []C12_Inv
  /\ [][C12_Step]_vars
  /\ <>(mpc = "done" \/ (mpc = "raised" /\ script_args.raise_exceptions))

C12_Witness == mpc = "done" /\ batch.close = 1 /\ batch.on_end = 1

\* the last event of Main.run(index) and its handler
LastEvent == events[Len(events)]

C13_Inv ==
  ~script_args.raise_exceptions =>
    /\ \A k \in DOMAIN batch.attempted : batch.attempted[k] = k - 1
    /\ Len(batch.attempted) <= Len(data)
    /\ batch.reset_container = Len(batch.failed)
    /\ mpc # "raised"
    /\ (mpc = "done" /\ batch.close = 0)
         => Len(batch.attempted) = Len(data)

C13_Step ==
  (~script_args.raise_exceptions /\ batch'.failed # batch.failed) =>
    /\ LastEvent' = <<"env", "reset_container">>
    /\ Count(events', <<"env", "reset_container">>) = 1
    /\ mpc' = "run"
    /\ index' = index + 1

\* C13: with raise_exceptions false and no interrupt, an exception raised in
\* one instance's processing never stops the batch: every index 0..N-1 is
\* attempted exactly once in increasing order, reset_container is called
\* exactly once after each failed instance and before the next instance's
\* on_instance_start, and the batch terminates.
C13_FailuresContained ==
  /\ []C13_Inv
  /\ [][C13_Step]_vars
  /\ (~script_args.raise_exceptions => <>(mpc = "done"))

C13_Witness ==
  /\ mpc = "done"
  /\ batch.close = 0
  /\ Len(batch.failed) = Len(data)
  /\ Len(batch.attempted) = Len(data)

C14_Inv ==
  /\ batch.close <= 1
  /\ mpc = "end" <=> batch.close = 1 /\ batch.on_end = 0
  /\ mpc = "end" =>
       /\ LastEvent = <<"env", "close">>
       /\ Count(events, <<"env", "close">>) = 1
       /\ ~Occurs(events, <<"env", "reset_container">>)

C14_Step ==
  batch.close = 1 =>
    /\ batch' = [batch EXCEPT !.on_end = @ + 1]
    /\ index' = index
    /\ events' = <<>>
    /\ env_log' = <<>>
    /\ hook_log' = FireAll("on_end")
    /\ preds' = preds
    /\ traj_dir' = traj_dir

\* C14: when a KeyboardInterrupt arrives while instance i is processed, the
\* environment is closed exactly once, reset_container is not called, and
\* no instance-start callback, environment reset or agent run happens for
\* any later instance.
C14_Interrupt == []C14_Inv /\ [][C14_Step]_vars

C14_Witness ==
  /\ mpc = "done"
  /\ batch.close = 1
  /\ index + 1 < Len(data)
  /\ Len(batch.attempted) = index + 1

\* C15: a failure raised by one hook's on_instance_completed is swallowed:
\* the remaining hooks' completion callbacks still run, the failure is not
\* treated as an instance failure (no reset_container), and it never aborts
\* the batch, whatever raise_exceptions is.
C15_HookFailureSwallowed ==
  [][mpc = "completed" =>
       /\ hook_out'.called = hooks
       /\ batch'.failed = batch.failed
       /\ batch'.reset_container = batch.reset_container
       /\ mpc' = "run"
       /\ index' = index + 1]_vars

C16_Inv ==
  /\ Len(preds) = Len(batch.returned)
  /\ \A k \in DOMAIN preds :
       /\ preds[k].instance_id = data[batch.returned[k] + 1]
       /\ preds[k].model = run_name
       /\ \A j \in DOMAIN preds : j < k
            => batch.returned[j] < batch.returned[k]
  /\ mpc = "completed" =>
       /\ preds # <<>>
       /\ preds[Len(preds)].instance_id = data[index + 1]
       /\ preds[Len(preds)].model_patch
            = (IF info.submission = "no_key" THEN "None"
               ELSE info.submission)
       /\ Callbacks(AfterStart) = <<>>
       /\ LastEvent = <<"Main", "_save_predictions">>
  /\ \A k \in DOMAIN events :
       events[k][2] = "on_instance_completed"
         => /\ Occurs(events, <<"Main", "_save_predictions">>)
            /\ k > Position(events, <<"Main", "_save_predictions">>)

C16_Step ==
  /\ Len(preds') >= Len(preds)
  /\ SubSeq(preds', 1, Len(preds)) = preds
  /\ preds' # preds =>
       /\ Len(preds') = Len(preds) + 1
       /\ mpc = "task"
       /\ mpc' = "completed"
       /\ batch'.returned = Append(batch.returned, index)

\* C16: within one batch all_preds.jsonl receives exactly one record
\* {model, instance_id, model_patch} for each instance whose agent run
\* returned, in index order and before that instance's completion hooks
\* fire; skipped, abandoned and failed instances append nothing, and lines
\* written before are never modified or removed.
C16_Predictions == []C16_Inv /\ [][C16_Step]_vars

C16_Witness ==
  /\ Len(preds) = Len(data)
  /\ Len(data) > 1
  /\ preds[1].model_patch = "patch"
  /\ preds[Len(preds)].model_patch = "None"
  /\ mpc = "done"

(***************************************************************************)
(* Properties of the completion callbacks of the two hooks                 *)
(***************************************************************************)
\* the run info holds a patch: the key is there and the string is not empty
HasSubmission(i) == i.submission # "no_key" /\ i.submission # ""

\* C17: on instance completion the patch hook writes
\* patches/<instance_id>.patch, holding the submission verbatim, if and only
\* if the run info carries a submission; it applies the patch to the local
\* repository if and only if, in addition, apply_patch_locally is enabled
\* and the instance's repo_type is "local"; a failing patch application is
\* logged and raises nothing.
C17_PatchHook ==
  hpc \in {"open_pr", "done"} =>
    LET i == hook_in.info
        id == hook_in.instance.instance_id
        o == hook_out.patch IN
    /\ o.written # "none" <=> HasSubmission(i)
    /\ HasSubmission(i) => o.written = i.submission /\ patches[id] = i.submission
    /\ ~HasSubmission(i) => patches[id] = "none"
    /\ \A id2 \in InstanceIds \ {id} : patches[id2] = "none"
    /\ o.git_apply # "not_run"
         <=> /\ HasSubmission(i)
             /\ actions.apply_patch_locally
             /\ hook_in.instance.repo_type = "local"
    /\ o.git_apply = "failed"
         <=> o.git_apply # "not_run" /\ hook_in.git = "CalledProcessError"
    /\ o.exc = "none"

C17_Witness ==
  /\ hpc = "open_pr"
  /\ hook_out.patch.written = "patch"
  /\ hook_out.patch.git_apply = "failed"
  /\ hook_out.patch.exc = "none"

\* C18: the environment's pull-request operation is invoked on instance
\* completion only if open_pr is enabled, a submission is present, the exit
\* status is exactly "submitted", the data path is a GitHub issue that is
\* open, unassigned and unlocked, and no commits are associated with the
\* issue or skip_if_commits_reference_issue is disabled; the checks run in
\* that order, so no GitHub lookup is made when open_pr is off, the
\* submission is missing or the exit status is not "submitted"; an invalid
\* issue URL declines without raising.
C18_OpenPR ==
  hpc = "done" =>
    LET i == hook_in.info
        gh == hook_in.gh
        o == hook_out.pr IN
    /\ o.pr_called =>
         /\ actions.open_pr
         /\ HasSubmission(i)
         /\ i.exit_status = "submitted"
         /\ gh.url = "issue"
         /\ gh.state = "open"
         /\ ~gh.assignee
         /\ ~gh.locked
         /\ ~gh.commits \/ ~actions.skip_if_commits_reference_issue
    /\ (~actions.open_pr \/ ~HasSubmission(i) \/ i.exit_status # "submitted")
         => o.lookups = <<>> /\ o.exc = "none"
    /\ Occurs(o.lookups, "get_associated_commit_urls")
         => /\ o.lookups[1] = "get_gh_issue_data"
            /\ gh.state = "open" /\ ~gh.assignee /\ ~gh.locked
    /\ (gh.url = "invalid" /\ o.lookups # <<>>)
         => o.lookups = <<"get_gh_issue_data">> /\ o.exc = "none"
            /\ ~o.pr_called

C18_Witness ==
  /\ hpc = "done"
  /\ hook_out.pr.pr_called
  /\ hook_in.gh.commits
  /\ hook_out.pr.lookups = <<"get_gh_issue_data", "get_associated_commit_urls">>

(***************************************************************************)
(* Properties of the construction of a model                               *)
(***************************************************************************)
\* the canonical name of id in the class get_model chose
Canonical(id) ==
  IF id \in DOMAIN ClassSHORTCUTS(built.cls)
    THEN ClassSHORTCUTS(built.cls)[id] ELSE id

InTable(id) == Canonical(id) \in DOMAIN ClassMODELS(built.cls)

TableMd(id) == ClassMODELS(built.cls)[Canonical(id)]

HasPrefix(prefix) == StartsWith(model_name, <<prefix, ":">>)

IdAfter(prefix) == AfterPrefix(model_name, <<prefix, ":">>)

\* one of the rules resolves model_name
Resolved ==
  \/ InTable(model_name)
  \/ HasPrefix("ft") /\ InTable(SplitColon1(model_name))
  \/ HasPrefix("azure") /\ InTable(IdAfter("azure"))
  \/ HasPrefix("bedrock") /\ IdAfter("bedrock") \in DOMAIN ClassMODELS(built.cls)
  \/ HasPrefix("ollama")

\* C19: construction resolves metadata as follows: an alias resolves to its
\* canonical entry's metadata with api_model the canonical name;
\* "ft:<base>:<suffix>" to the metadata of <base>; "azure:<id>" and
\* "bedrock:<id>" to the table metadata of <id>; "ollama:<id>" to a
\* synthesized entry with zero costs and max_context 128000; every name that
\* none of these rules resolves, a recognised prefix followed by an id absent
\* from the table included, fails construction with ValueError.
C19_NameResolution ==
  bpc = "built" =>
    /\ model_name \in DOMAIN ClassSHORTCUTS(built.cls) =>
         /\ built.exc = "none"
         /\ built.api_model = ClassSHORTCUTS(built.cls)[model_name]
         /\ built.model_metadata = TableMd(model_name)
    /\ (HasPrefix("ft") /\ InTable(SplitColon1(model_name))) =>
         /\ built.exc = "none"
         /\ built.model_metadata = TableMd(SplitColon1(model_name))
    /\ (HasPrefix("azure") /\ InTable(IdAfter("azure"))) =>
         /\ built.exc = "none"
         /\ built.model_metadata = TableMd(IdAfter("azure"))
    /\ (HasPrefix("bedrock")
        /\ IdAfter("bedrock") \in DOMAIN ClassMODELS(built.cls)) =>
         /\ built.exc = "none"
         /\ built.model_metadata = ClassMODELS(built.cls)[IdAfter("bedrock")]
    /\ HasPrefix("ollama") =>
         /\ built.exc = "none"
         /\ built.model_metadata = Md(128000, 0, 0)
    /\ ~Resolved => built.exc = "ValueError"

\* the provider of "bedrock:<provider>.<model>"
Provider == SplitDot0(IdAfter("bedrock"))

\* C20: constructing the Bedrock backend for "bedrock:<provider>.<model>"
\* with provider ai21, amazon, cohere, meta or mistral fails at once with a
\* not-implemented error; with any other provider but anthropic it fails
\* with ValueError; only the anthropic prefix constructs successfully.
C20_BedrockProviders ==
  (bpc = "built" /\ HasPrefix("bedrock") /\ Occurs(IdAfter("bedrock"), ".")) =>
    /\ (\E p \in UnsupportedProviders : Provider = <<p>>)
         => built.exc = "NotImplementedError"
    /\ (Provider # <<"anthropic">>
        /\ \A p \in UnsupportedProviders : Provider # <<p>>)
         => built.exc = "ValueError"
    /\ built.exc = "none" => Provider = <<"anthropic">>


(***************************************************************************)
(* Properties of the scripted models, the human model and the message      *)
(* conversion                                                              *)
(***************************************************************************)
\* the recorded actions of all trajectories, one after the other
Flatten(replays) ==
  LET F[i \in 0..Len(replays)] ==
        IF i = 0 THEN <<>> ELSE F[i - 1] \o replays[i]
  IN  F[Len(replays)]

\* every recorded trajectory ends with its only submit
EndsWithOnlySubmit(replays) ==
  \A i \in 1..Len(replays) :
    /\ Len(replays[i]) >= 1
    /\ \A j \in 1..Len(replays[i]) :
         (replays[i][j] = "submit") <=> (j = Len(replays[i]))

\* a call that returned: it returned the action at the two indexes, and the
\* indexes moved as the action says
C21_Step ==
  Len(replay_log'.returned) = Len(replay_log.returned) + 1 =>
    LET action == replay_log'.returned[Len(replay_log'.returned)]
        m == replay_model
    IN  /\ m.replay_idx < Len(m.replays)
        /\ m.action_idx < Len(m.replays[m.replay_idx + 1])
        /\ action = m.replays[m.replay_idx + 1][m.action_idx + 1]
        /\ IF action = "submit"
           THEN /\ replay_model'.replay_idx = m.replay_idx + 1
                /\ replay_model'.action_idx = 0
           ELSE /\ replay_model'.replay_idx = m.replay_idx
                /\ replay_model'.action_idx = m.action_idx + 1

\* with trajectories that end with their only submit: what was returned is
\* the start of the recorded actions, and a call raises only when all of
\* them have been returned
C21_Inv ==
  EndsWithOnlySubmit(replay_model.replays) =>
    LET all == Flatten(replay_model.replays)
        n == Len(replay_log.returned)
        m == replay_model
    IN  /\ n <= Len(all)
        /\ replay_log.returned = SubSeq(all, 1, n)
        /\ m.replay_idx <= Len(m.replays)
        /\ m.replay_idx < Len(m.replays) =>
             m.action_idx < Len(m.replays[m.replay_idx + 1])
        /\ (m.replay_idx = Len(m.replays)) <=> (n = Len(all))
        /\ replay_log.raised # "none" => n = Len(all)

\* C21: successive ReplayModel.query calls return the recorded actions in
\* order, trajectory after trajectory: each call returns the action at the
\* two indexes and advances the action index by one, and exactly when the
\* action is "submit" the trajectory index advances by one and the action
\* index returns to 0; while every trajectory ends with its only "submit"
\* and no more calls are made than actions are recorded, both indexes stay
\* within bounds and no call raises.
C21_Replay == []C21_Inv /\ [][C21_Step]_vars

\* both of two trajectories replayed to the end, one of them of two actions
C21_Witness ==
  /\ EndsWithOnlySubmit(replay_model.replays)
  /\ Len(replay_model.replays) = 2
  /\ Len(replay_log.returned) >= 3
  /\ replay_log.returned = Flatten(replay_model.replays)
  /\ replay_model.replay_idx = 2
  /\ replay_model.action_idx = 0

\* C22: the n-th call of InstantEmptySubmitTestModel.query returns the
\* "create reproduce.py" response when n is odd and the "submit" response
\* when n is even, so the first submit of a fresh stub is its second turn.
C22_Alternates ==
  /\ \A n \in 1..Len(stub_log) :
       stub_log[n] = IF n % 2 = 1 THEN CreateResponse ELSE SubmitResponse
  /\ stub_model.action_idx = Len(stub_log) % 2
  /\ CreateResponse # SubmitResponse

\* four turns: create, submit, create, submit
C22_Witness ==
  /\ Len(stub_log) >= 4
  /\ stub_log[2] = SubmitResponse
  /\ stub_log[3] = CreateResponse

\* the first index from 2 on of a line that is kw without its trailing
\* blanks; 0 when there is none
Terminator(lines, kw) ==
  IF \E k \in 2..Len(lines) : rstrip(lines[k]) = kw
  THEN CHOOSE k \in 2..Len(lines) :
         /\ rstrip(lines[k]) = kw
         /\ \A j \in 2..(k - 1) : rstrip(lines[j]) # kw
  ELSE 0

\* what the query is to come to on lines whose terminator is at k: the
\* lines from..to joined when there is a terminator, no return without
HumanReturns(k, from, to) ==
  IF k = 0
  THEN human_out.pc = "raised" /\ human_out.raised = "EOFError"
  ELSE /\ human_out.pc = "returned"
       /\ stdin.read = k
       /\ human_out.returned = join(SubSeq(stdin.lines, from, to))

\* C23: HumanModel.query: when the first word of the first line names a
\* command with an end_name it returns the first line and the lines read up
\* to and including the first that is end_name without its trailing blanks,
\* joined by newlines; when the first line is start_multiline_command it
\* returns the lines strictly between it and the first line that is
\* end_multiline_command; otherwise it returns the single line; it does not
\* return before the terminator has been read.
C23_HumanQuery ==
  (Len(stdin.lines) >= 1 /\ human_out.pc \in {"returned", "raised"}) =>
    LET first == stdin.lines[1]
        words == split(first)
        endings == human_model.multi_line_command_endings
    IN  IF words # <<>> /\ words[1] \in DOMAIN endings
        THEN LET k == Terminator(stdin.lines, <<endings[words[1]]>>)
             IN  HumanReturns(k, 1, k)
        ELSE IF strip(first) = <<"start_multiline_command">>
        THEN LET k == Terminator(stdin.lines, <<"end_multiline_command">>)
             IN  HumanReturns(k, 2, k - 1)
        ELSE /\ human_out.pc = "returned"
             /\ stdin.read = 1
             /\ human_out.returned = first

\* the messages returned, read from the heap
ReturnedMessages == [i \in 1..Len(messages.value) |-> heap[messages.value[i]]]

\* the turns of the history that are not system turns, as they were given
GivenTurns == SelectSeq(messages.before, LAMBDA e : e.role # "system")

\* the first turn of each run of one role among the given turns
RunStarts ==
  {j \in 1..Len(GivenTurns) :
     j = 1 \/ GivenTurns[j].role # GivenTurns[j - 1].role}

\* the contents of the i-th run joined by newlines
RunContent(i) ==
  LET s == CHOOSE j \in RunStarts :
             Cardinality({k \in RunStarts : k <= j}) = i
      later == {j \in RunStarts : j > s}
      e == IF later = {} THEN Len(GivenTurns)
           ELSE (CHOOSE j \in later : \A k \in later : j <= k) - 1
  IN  [role |-> GivenTurns[s].role,
       content |-> join([k \in 1..(e - s + 1) |->
                           GivenTurns[s + k - 1].content])]

\* C24: for a modern Anthropic model and no demonstration,
\* anthropic_history_to_messages returns messages with no system turn and
\* no two neighbours of one role: one message for each maximal run of
\* same-role turns (system turns left out), in chronological order, its
\* content the run's contents joined by newlines in chronological order,
\* or "(No output)" when that is empty or blank; each message has the keys
\* role and content only; the history given is left as it was.
C24_Messages ==
  (messages.pc = "returned" /\ messages.kind = "list") =>
    LET out == ReturnedMessages IN
    /\ \A i \in 1..Len(out) : out[i].role # "system"
    /\ \A i \in 1..(Len(out) - 1) : out[i].role # out[i + 1].role
    /\ Len(out) = Cardinality(RunStarts)
    /\ \A i \in 1..Len(out) :
         out[i] = [role |-> RunContent(i).role,
                   content |-> IF blank(RunContent(i).content) THEN NoOutput
                               ELSE RunContent(i).content]
    /\ history = [a \in 1..Len(messages.before) |-> a]
    /\ \A a \in 1..Len(history) : heap[a] = messages.before[a]

\* two turns of one role around a system turn come back as one message
C24_Witness ==
  /\ messages.pc = "returned" /\ messages.kind = "list"
  /\ Len(messages.before) = 3
  /\ messages.before[2].role = "system"
  /\ Len(messages.value) = 1
  /\ ReturnedMessages[1] = [role |-> "user", content |-> <<"a", "\n", "b">>]
  /\ heap[1].content = <<"a">>


(***************************************************************************)
(* Properties of the command parsers, the prompt context and concurrent    *)
(* orchestrators                                                           *)
(***************************************************************************)
\* parse_command_file has returned or raised
Parsed == commands.pc \in {"returned", "raised"}

\* the number of @yaml blocks of the file
Blocks == Len(SelectSeq(cmd_file.items, LAMBDA it : it = "yaml"))

\* the signature a definition without an explicit one is to get
DefaultSignature(cmd) ==
  LET F[i \in 0..Len(cmd.arguments.items)] ==
        IF i = 0 THEN cmd.name
        ELSE F[i - 1] \o (IF cmd.arguments.items[i].required
                          THEN <<" <", cmd.arguments.items[i].param, ">">>
                          ELSE <<" [<", cmd.arguments.items[i].param, ">]">>)
  IN  F[Len(cmd.arguments.items)]

\* C25: the signature of a parsed command is the explicit signature of its
\* definition when there is one, and otherwise the command name followed in
\* declaration order by " <arg>" for each required and " [<arg>]" for each
\* optional argument (the bare name without arguments), for parse_script
\* and for parse_bash_functions alike.
C25_Signature ==
  commands.pc = "returned" =>
    \A i \in 1..Len(commands.value) :
      LET cmd == commands.value[i] IN
      cmd.signature =
        IF cmd.docstring # "None" /\ cmd_file.docs.signature # None
        THEN cmd_file.docs.signature
        ELSE DefaultSignature(cmd)

\* the file name without its extension
Stem(name) ==
  IF Len(name) >= 2 /\ name[Len(name) - 1] = "."
  THEN SubSeq(name, 1, Len(name) - 2)
  ELSE name

\* C26: parse_command_file raises ValueError for a shebang file with more
\* than one @yaml block, for a shebang file with no @yaml block whose name
\* does not start with an underscore, and for a file without shebang,
\* without .sh extension and without leading underscore; for a shebang
\* file with exactly one @yaml block it returns exactly one command, named
\* after the file stem.
C26_ParseErrors ==
  Parsed =>
    LET underscore == cmd_file.name[1] = "_"
        sh == cmd_file.name[Len(cmd_file.name)] = "sh"
    IN  /\ (cmd_file.shebang /\ Blocks > 1) =>
             commands.raised = "ValueError"
        /\ (cmd_file.shebang /\ Blocks = 0 /\ ~underscore) =>
             commands.raised = "ValueError"
        /\ (~cmd_file.shebang /\ ~sh /\ ~underscore) =>
             commands.raised = "ValueError"
        /\ (cmd_file.shebang /\ Blocks = 1) =>
             /\ commands.pc = "returned"
             /\ Len(commands.value) = 1
             /\ commands.value[1].name = Stem(cmd_file.name)

\* tool.py with a shebang and one block gave the one command "tool"
C26_Witness ==
  /\ commands.pc = "returned"
  /\ cmd_file.shebang
  /\ cmd_file.name = <<"tool", ".", "py">>
  /\ Blocks = 1
  /\ Len(cmd_file.items) = 3
  /\ Len(commands.value) = 1
  /\ commands.value[1].name = <<"tool">>

\* C27: for a file whose name starts with an underscore parse_command_file
\* returns zero commands and raises nothing, whatever the file contains.
C27_Underscore ==
  (Parsed /\ cmd_file.name[1] = "_") =>
    commands.pc = "returned" /\ commands.value = <<>>

\* C28: when the record carries FAIL_TO_PASS the prompt context "tests" is
\* the bulleted list of its test names, one on a line; when it does not,
\* "tests" is empty; on a record without the misspelled key, the lookup
\* does not fail.
C28_Tests ==
  setup_args.pc # "record" =>
    /\ "FAIL_TO_PASS" \in DOMAIN record =>
         /\ setup_args.pc = "built"
         /\ setup_args.tests =
              join([i \in 1..Len(record["FAIL_TO_PASS"]) |->
                      <<"- ", record["FAIL_TO_PASS"][i]>>])
    /\ "FAIL_TO_PASS" \notin DOMAIN record => setup_args.tests = <<>>
    /\ "FAIL_endTO_PASS" \notin DOMAIN record => setup_args.pc = "built"

\* the number of lines of all_preds.jsonl for the instance
RecordsFor(instance_id) ==
  Cardinality({k \in DOMAIN shared_preds :
                 shared_preds[k].instance_id = instance_id})

\* the number of times the orchestrator has the instance in the list
TimesIn(list, instance_id) ==
  Cardinality({k \in DOMAIN list : list[k] = instance_id})

\* a trajectory file that makes should_skip return False: none, or one
\* without exit status
Redo(file) ==
  \/ ~file.exists
  \/ file.doc = "info" /\ file.exit_status \in {"early_exit", "no_key", "null"}

\* each line of all_preds.jsonl is one returned run of one orchestrator
C29_Inv ==
  \A id \in InstanceIds :
    /\ RecordsFor(id) =
         TimesIn(orch[1].returned, id) + TimesIn(orch[2].returned, id)
    /\ \A p \in Orchestrators :
         /\ TimesIn(orch[p].returned, id) <= TimesIn(orch[p].passed, id)
         /\ TimesIn(orch[p].passed, id) <= 1

\* a skip decision is made on the file as it is at that moment and on
\* nothing else: the orchestrator takes the instance up exactly when the
\* file is absent or without exit status, whatever the other one does
C29_Step ==
  \A p \in Orchestrators :
    (orch[p].pc = "loop" /\ orch'[p] # orch[p]
       /\ orch[p].index < Len(data)) =>
      LET id == data[orch[p].index + 1] IN
      (orch'[p].pc = "task") <=> Redo(shared_dir.traj[id])

\* C29: nothing but the trajectory file of the moment enters a skip
\* decision, so that two orchestrators with the same arguments on one
\* trajectory directory can both pass should_skip for one instance before
\* either has written its trajectory, both run it, and all_preds.jsonl ends
\* with two records for that instance id (the state of C29_Witness).
C29_Race == []C29_Inv /\ [][C29_Step]_vars

\* Both have finished, both passed should_skip for the first instance and
\* ran it to a submission, and all_preds.jsonl has two records for it.  A
\* submitted trajectory makes every later should_skip return True, so both
\* decisions were made before either trajectory was written.
C29_Witness ==
  /\ \A p \in Orchestrators :
       /\ orch[p].pc = "done"
       /\ TimesIn(orch[p].passed, data[1]) = 1
       /\ TimesIn(orch[p].returned, data[1]) = 1
  /\ RecordsFor(data[1]) = 2
  /\ \A k \in DOMAIN shared_preds :
       shared_preds[k].instance_id = data[1] =>
         shared_preds[k].model_patch = "patch"
  /\ shared_dir.traj[data[1]] = Traj("submitted")
  /\ RaceArgs.skip_existing

\* C30: for a command with an end_name and declared arguments,
\* get_signature returns the name followed by all arguments but the last
\* inline, then a line with the last argument's key and a line with the
\* end_name; it raises for no such command.
C30_EndNameSignature ==
  (/\ commands.pc = "signature"
   /\ commands.value[1].end_name # None
   /\ commands.value[1].arguments.given
   /\ commands.value[1].arguments.items # <<>>) =>
    LET cmd == commands.value[1]
        n == Len(cmd.arguments.items)
        but_last == [cmd EXCEPT !.arguments.items = SubSeq(@, 1, n - 1)]
    IN  /\ commands.raised = "none"
        /\ commands.signature =
             DefaultSignature(but_last)
               \o <<"\n", cmd.arguments.items[n].param, "\n">>
               \o cmd.end_name

(***************************************************************************)
(* Properties of the cost limits across resets and retries                 *)
(***************************************************************************)
\* the cumulative cost has reached a positive total limit
TotalLimitReached ==
  args.total_cost_limit > 0 /\ stats.total_cost >= args.total_cost_limit

\* C34: once total_cost has reached a positive total_cost_limit, a
\* no-argument reset_stats leaves it reached and every update_stats call
\* raises cost-limit-exceeded, so the limit stays reached after any number
\* of no-argument resets.
C34_TotalLimitTerminal ==
  [][TotalLimitReached =>
       /\ op' = "reset_stats" => TotalLimitReached'
       /\ UpdateStatsRan' => (UpdateStatsRaised' /\ TotalLimitReached')]_vars

\* an update_stats raised on the total limit alone, as the first call after
\* a no-argument reset that carried a total already at the limit
C34_Witness ==
  /\ op = "update_stats"
  /\ outcome = "CostLimitExceededError"
  /\ args.per_instance_cost_limit = 0
  /\ base.instance_cost = 0
  /\ base.api_calls = 0
  /\ base.total_cost >= args.total_cost_limit
  /\ args.total_cost_limit > 0
  /\ Len(calls) = 1

\* the call most recently accounted
LastCall == calls[Len(calls)]

\* the statistics of the next state are those of this state plus one call
ChargedOnce ==
  /\ Len(calls') = Len(calls) + 1
  /\ stats'.api_calls = stats.api_calls + 1
  /\ stats'.tokens_sent = stats.tokens_sent + LastCall'[1]
  /\ stats'.tokens_received = stats.tokens_received + LastCall'[2]
  /\ stats'.instance_cost =
       stats.instance_cost + SumCost(<<LastCall'>>, MODELS(backend))
  /\ stats'.total_cost =
       stats.total_cost + SumCost(<<LastCall'>>, MODELS(backend))

\* C35: when update_stats raises cost-limit-exceeded the five counters
\* include the raising call's tokens and cost and api_calls has grown by 1,
\* and a query whose update_stats raised ends with that error instead of a
\* response.
C35_ChargeBeforeCheck ==
  [][(UpdateStatsRan' /\ UpdateStatsRaised') =>
       /\ ChargedOnce
       /\ op' = "attempt" =>
            (qstate' = "idle" /\ outcome' = "CostLimitExceededError")]_vars

\* a query ended with cost-limit-exceeded and the call that raised it, with
\* tokens both ways, is in the counters
C35_Witness ==
  /\ op = "attempt"
  /\ raised = "CostLimitExceededError"
  /\ outcome = "CostLimitExceededError"
  /\ Len(calls) >= 1
  /\ LastCall = <<2, 1>>
  /\ stats.api_calls = base.api_calls + Len(calls)
  /\ stats.tokens_sent >= base.tokens_sent + 2

\* the provider call of the attempt that has just run gave a response
ProviderAnswered == resp \in {"ok", "ok_no_prompt_eval_count"}

\* C36: within one query invocation an attempt that does not get a response
\* from the provider leaves the statistics as they were, and the attempt
\* that gets one is charged exactly once and is the last of the invocation.
C36_RetriesChargeOnce ==
  [](op = "attempt" /\ ProviderAnswered => qstate = "idle")
  /\ [][op' = "attempt" =>
          IF ProviderAnswered' THEN ChargedOnce
          ELSE stats' = stats /\ calls' = calls]_vars

\* a query returned on its third attempt, after two failed provider calls,
\* with one call charged since the reset
C36_Witness ==
  /\ op = "attempt"
  /\ attempt = 3
  /\ provider_calls = 3
  /\ resp = "ok"
  /\ outcome = "returned"
  /\ Len(calls) = 1
  /\ stats.api_calls = base.api_calls + 1
  /\ stats.instance_cost > base.instance_cost

(***************************************************************************)
(* Properties of leftover trajectory files and of the failure warning      *)
(***************************************************************************)
\* C32: with skip_existing enabled and the filter matching, an existing
\* trajectory file that is not a complete JSON document or has no info
\* object is deleted, should_skip returns false, the instance goes on to
\* run and is not counted as failed.
C32_PartialTrajectory ==
  [][(/\ AtSkipDecision
      /\ script_args.skip_existing
      /\ re_match(script_args.instance_filter, current_id)
      /\ traj_dir[current_id] \in {Partial, NoInfo})
     => /\ skip_ret' = "False"
        /\ traj_dir' = [traj_dir EXCEPT ![current_id] = NoFile]
        /\ mpc' = "task"
        /\ batch'.failed = batch.failed]_vars

\* C37: whenever Main.main contains a failure and logs its warning, the
\* instance the warning names is the instance at the index being processed.
C37_WarningNamesInstance ==
  [][(~script_args.raise_exceptions /\ batch'.failed # batch.failed)
     => failed_on(batch'.record) = data[index + 1]]_vars

(***************************************************************************)
(* Properties of parse_bash_functions                                      *)
(***************************************************************************)
\* the positions of the functions of the file, in order
FunctionPositions ==
  SelectSeq([i \in 1..Len(cmd_file.items) |-> i],
            LAMBDA i : cmd_file.items[i] = "function")

\* the command carries the documentation of a comment block
Documented(cmd) == cmd.docstring = cmd_file.docs.docstring

\* C31: a function parsed by parse_bash_functions is documented by the
\* comment lines that immediately precede its "name() {" line and by no
\* others: comment lines separated from it by other lines do not
\* contribute, nor do those of an earlier function.
C31_ImmediatelyPrecedingDocs ==
  (/\ commands.pc = "returned"
   /\ ~cmd_file.shebang
   /\ \A i \in 1..Len(cmd_file.items) : cmd_file.items[i] # "header")
  => /\ Len(commands.value) = Len(FunctionPositions)
     /\ \A k \in 1..Len(commands.value) :
          Documented(commands.value[k])
          <=> /\ FunctionPositions[k] > 1
              /\ cmd_file.items[FunctionPositions[k] - 1] = "yaml"

\* C39: parse_bash_functions ends on every file content without reading
\* past the last line, also when a "name() {" line is followed by no line
\* "}".
C39_NoOutOfRange ==
  commands.pc = "raised" => commands.raised # "IndexError"

(***************************************************************************)
(* Properties of all_preds.jsonl over successive batches                   *)
(***************************************************************************)
\* C38: over successive batches of a single orchestrator on one trajectory
\* directory with skip_existing enabled, all_preds.jsonl never holds two
\* records with the same instance id.
C38_OneRecordPerInstance ==
  (\A p \in Orchestrators \ SingleOrchestrator : orch[p] = NoOrch)
  => \A id \in InstanceIds : RecordsFor(id) <= 1

(***************************************************************************)
(* Properties of anthropic_query                                           *)
(***************************************************************************)
\* C40: for every id of the Anthropic and Bedrock tables the endpoint, the
\* prompt shape and the metadata key agree: a request to the completions
\* endpoint carries a flattened string and the model's metadata has
\* max_tokens_to_sample, a request to the messages endpoint carries a list
\* of messages and the metadata has max_tokens.
C40_EndpointShapeKey ==
  request.pc = "called" =>
    /\ request.endpoint = "completions" =>
         /\ request.shape = "prompt"
         /\ "max_tokens_to_sample" \in length_keys(request.model)
    /\ request.endpoint = "messages" =>
         /\ request.shape = "list"
         /\ "max_tokens" \in length_keys(request.model)

(***************************************************************************)
(* Properties of the repository references                                 *)
(***************************************************************************)
NoSlash(s) == \A k \in 1..Len(s) : s[k] # "/"

\* url is [scheme://]github.com/OWNER/REPO[/anything] or
\* git@github.com/OWNER/REPO[/anything]: the host stands at h, the owner
\* segment ends before the "/" at s, the repo segment ends at e
HasForm(url, h, s, e) ==
  /\ SubSeq(url, 1, h - 1) \in Prefixes
  /\ url[h] = "github.com"
  /\ h + 2 < s /\ s < e
  /\ url[h + 1] = "/"
  /\ NoSlash(SubSeq(url, h + 2, s - 1))
  /\ url[s] = "/"
  /\ NoSlash(SubSeq(url, s + 1, e))
  /\ (e < Len(url) => url[e + 1] = "/")

\* the forms the claim names as failing: no github.com in the string,
\* nothing after "github.com/", or an empty owner segment
Malformed(url) ==
  \/ \A k \in 1..Len(url) : url[k] # "github.com"
  \/ \E p \in Prefixes : url = p \o <<"github.com", "/">>
  \/ \E k \in 1..(Len(url) - 2) :
       url[k] = "github.com" /\ url[k + 1] = "/" /\ url[k + 2] = "/"

\* a bare filesystem path
BarePath(url) ==
  /\ url # <<>>
  /\ url[1] = "/"
  /\ \A k \in 1..Len(url) : url[k] # "github.com"

\* C33: for every string of one of the forms with non-empty OWNER and REPO,
\* is_github_repo_url is true and parse_gh_repo_url returns exactly
\* (OWNER, REPO) whatever follows the repo segment; for the empty string
\* and a bare path recognition is false; for "github.com/", an empty owner
\* segment or a string without github.com parsing raises InvalidGithubURL.
C33_RepoUrl ==
  /\ gh_out.pc = "recognized" =>
       /\ (\E h, s, e \in 1..Len(gh_url) : HasForm(gh_url, h, s, e))
            => gh_out.ret
       /\ (gh_url = <<>> \/ BarePath(gh_url)) => ~gh_out.ret
  /\ gh_out.pc = "parsed" =>
       /\ \A h, s, e \in 1..Len(gh_url) :
            HasForm(gh_url, h, s, e) =>
              /\ gh_out.raised = "none"
              /\ gh_out.value = <<SubSeq(gh_url, h + 2, s - 1),
                                  SubSeq(gh_url, s + 1, e)>>
       /\ Malformed(gh_url) =>
            (gh_out.raised = "InvalidGithubURL" /\ gh_out.value = <<>>)

\* git@github.com/OWNER/REPO/anything was parsed and the trailing segment
\* left out
C33_Witness ==
  /\ gh_out.pc = "parsed"
  /\ gh_url = <<"git@", "github.com", "/", "a", "/", "b", "/", "a">>
  /\ gh_out.value = << <<"a">>, <<"b">> >>

====
